---- MODULE Spec2Model ----
(***************************************************************************)
(* A model of the calorie tracker (src/app.js): the State Document         *)
(* (ingredients, recipes, dayLogs, goals), its persistence in              *)
(* localStorage, the 04:30 day rollover, day navigation and import.        *)
(*                                                                         *)
(* Numbers.  JavaScript numbers are modelled as integers.  NaN stands for  *)
(* every value for which Number.isFinite is false (NaN, a missing field,   *)
(* null, a string).  Totals are kept in hundredths of the ingredient's     *)
(* unit, so that amount / 100 stays exact: a Totals field t of the program *)
(* is the integer 100 * t here.                                            *)
(*                                                                         *)
(* Time.  An instant is a number of seconds since 2024-01-01T00:00:00 UTC. *)
(* A Date's local fields are those of the host's time zone, taken to be    *)
(* Central European time with daylight saving (the application is German). *)
(* A day key "YYYY-MM-DD" is the integer YYYYMMDD: both are fixed width,   *)
(* so the string order of the program is the integer order here.           *)
(***************************************************************************)
EXTENDS Integers, Sequences, FiniteSets, TLC

(* ------------------------------ bounds --------------------------------- *)
\* Number of calendar days of the modelled window (the clock stops after it).
MaxDays == 2
\* Number of ids uid() hands out before creation stops.
MaxUid == 1
\* Number of lines the draft of the recipe editor takes.
MaxItems == 1

(* ----------------------- calendar and rollover ------------------------- *)
NaN == -999999

IsFinite(x) == x # NaN

SecondsPerDay == 24 * 60 * 60

\* (4 * 60 + 30) * 60 * 1000 ms, in seconds
RolloverShift == (4 * 60 + 30) * 60

IsLeap(y) == (y % 4 = 0 /\ y % 100 # 0) \/ y % 400 = 0

DaysInMonth(y, m) ==
  IF m = 2 THEN (IF IsLeap(y) THEN 29 ELSE 28)
  ELSE IF m \in {4, 6, 9, 11} THEN 30 ELSE 31

\* Day index (0 = 2024-01-01) to the civil date <<year, month, day>>.
RECURSIVE CivilFromDays(_, _, _)
CivilFromDays(y, m, n) ==
  IF n < DaysInMonth(y, m) THEN <<y, m, n + 1>>
  ELSE IF m = 12 THEN CivilFromDays(y + 1, 1, n - DaysInMonth(y, m))
  ELSE CivilFromDays(y, m + 1, n - DaysInMonth(y, m))

\* Day index of January 1st of year y (years from 2024 on).
RECURSIVE YearStart(_)
YearStart(y) ==
  IF y <= 2024 THEN 0
  ELSE YearStart(y - 1) + (IF IsLeap(y - 1) THEN 366 ELSE 365)

\* Civil date to day index.
RECURSIVE DaysFromCivil(_, _, _)
DaysFromCivil(y, m, d) ==
  IF m > 1 THEN DaysInMonth(y, m - 1) + DaysFromCivil(y, m - 1, d)
  ELSE YearStart(y) + d - 1

\* Central European daylight saving time of 2024, as instants.
DstStart == DaysFromCivil(2024, 3, 31) * SecondsPerDay + 3600
DstEnd == DaysFromCivil(2024, 10, 27) * SecondsPerDay + 3600

\* Offset of local time from UTC at instant t.
UtcOffset(t) == IF DstStart <= t /\ t < DstEnd THEN 7200 ELSE 3600

\* Local wall clock (seconds since 2024-01-01T00:00 local) of instant t.
LocalSeconds(t) == t + UtcOffset(t)

\* getFullYear / getMonth / getDate of a Date: the local day index.
LocalDay(t) == LocalSeconds(t) \div SecondsPerDay

\* The instant at which the local wall clock shows second s of day n.
AtLocal(n, s) ==
  LET std == n * SecondsPerDay + s - 3600
      dst == n * SecondsPerDay + s - 7200
  IN IF UtcOffset(std) = 3600 THEN std ELSE dst

dayKeyFromDate(t) ==
  LET c == CivilFromDays(2024, 1, LocalDay(t))
  IN c[1] * 10000 + c[2] * 100 + c[3]

\* new Date(y, m, d): local midnight of the key's date.
dateFromDayKey(key) ==
  AtLocal(DaysFromCivil(key \div 10000, (key \div 100) % 100, key % 100), 0)

\* setDate(getDate() + n): the same local time of day, n calendar days on.
addDays(t, n) == AtLocal(LocalDay(t) + n, LocalSeconds(t) % SecondsPerDay)

nowDayKeyRollover0430(t) == dayKeyFromDate(t - RolloverShift)

(* ------------------------------ calc ----------------------------------- *)
MEALS == <<"breakfast", "lunch", "snacks", "dinner">>

isValidMeal(meal) == \E i \in 1..Len(MEALS) : MEALS[i] = meal

\* a variant that leaves the meal of an entry as it is stored
storedEntryMeal(entry) == entry.meal

normalizeEntryMeal(entry) == IF isValidMeal(entry.meal) THEN entry.meal ELSE "snacks"

ZeroTotals == [kcal |-> 0, protein |-> 0, carbs |-> 0, fat |-> 0, price |-> 0]

AddTotals(a, b) ==
  [kcal |-> a.kcal + b.kcal, protein |-> a.protein + b.protein,
   carbs |-> a.carbs + b.carbs, fat |-> a.fat + b.fat, price |-> a.price + b.price]

\* a variant of the scaling that leaves the factor out
UnscaledTotals(t, f) == t

ScaleTotals(t, f) ==
  [kcal |-> t.kcal * f, protein |-> t.protein * f, carbs |-> t.carbs * f,
   fat |-> t.fat * f, price |-> t.price * f]

\* a variant of the factor that takes every basis but 100 g as per piece
FactorOfGramsOnly(ing, amount) ==
  IF ing.unitType = "100g" THEN amount
  ELSE amount * 100

\* factor, in hundredths: amount / 100 per 100 g or 100 ml, amount per piece
IngredientFactor(ing, amount) ==
  IF ing.unitType = "100g" THEN amount
  ELSE IF ing.unitType = "100ml" THEN amount
  ELSE amount * 100

calcIngredientTotals(ing, amount) ==
  [kcal |-> ing.kcal * IngredientFactor(ing, amount),
   protein |-> ing.protein * IngredientFactor(ing, amount),
   carbs |-> ing.carbs * IngredientFactor(ing, amount),
   fat |-> ing.fat * IngredientFactor(ing, amount),
   price |-> ing.price * IngredientFactor(ing, amount)]

\* Array.prototype.some(x => x.id === id)
SomeId(seq, id) == \E i \in 1..Len(seq) : seq[i].id = id

\* Array.prototype.findIndex(x => x.id === id): the first match, 0 for none
FindIndex(seq, id) ==
  IF SomeId(seq, id)
  THEN CHOOSE i \in 1..Len(seq) : seq[i].id = id /\ \A j \in 1..(i - 1) : seq[j].id # id
  ELSE 0

\* the values of a sequence
Range(seq) == {seq[i] : i \in 1..Len(seq)}

\* entry e refers to the entity of the given type ("ingredient", "recipe")
\* and id
RefersTo(e, type, id) ==
  e.refId = id /\ (e.type = "ingredient" <=> type = "ingredient")

\* the entries of seq that do not refer to the entity
NotReferring(seq, type, id) == LET keep(e) == ~RefersTo(e, type, id) IN SelectSeq(seq, keep)

\* the loop of calcRecipeTotals over the first n items
RECURSIVE RecipeLoop(_, _, _)
RecipeLoop(items, ingredients, n) ==
  IF n = 0 THEN ZeroTotals
  ELSE LET t == RecipeLoop(items, ingredients, n - 1)
           k == FindIndex(ingredients, items[n].ingredientId)
       IN IF k = 0 THEN t
          ELSE AddTotals(t, calcIngredientTotals(ingredients[k], items[n].amount))

\* a variant of the loop that ends at the first item whose ingredient is missing
RECURSIVE LoopUntilMissing(_, _, _)
LoopUntilMissing(items, ingredients, n) ==
  IF n = 0 THEN ZeroTotals
  ELSE IF \E i \in 1..n : FindIndex(ingredients, items[i].ingredientId) = 0
  THEN LoopUntilMissing(items, ingredients, n - 1)
  ELSE AddTotals(LoopUntilMissing(items, ingredients, n - 1),
                 calcIngredientTotals(
                   ingredients[FindIndex(ingredients, items[n].ingredientId)],
                   items[n].amount))

calcRecipeTotalsUntilMissing(recipe, ingredients) ==
  LoopUntilMissing(recipe.items, ingredients, Len(recipe.items))

\* for (const it of recipe.items) throws when items is no array
RecipeThrows(recipe) == ~recipe.itemsIsArray

\* the totals of a recipe whose items is an array
calcRecipeTotals(recipe, ingredients) ==
  RecipeLoop(recipe.items, ingredients, Len(recipe.items))

(* ------------------------------- display ------------------------------ *)
\* Math.round(n / d) for d > 0: the nearest integer, a half rounded up
MathRound(n, d) == (2 * n + d) \div (2 * d)

\* a variant of the clamp without the upper limit
clampPctFromBelow(x) ==
  IF ~IsFinite(x) THEN 0
  ELSE IF x < 0 THEN 0
  ELSE x

clampPct(x) ==
  IF ~IsFinite(x) THEN 0
  ELSE IF x < 0 THEN 0
  ELSE IF x > 999 THEN 999
  ELSE x

\* value and goal in the same unit
pctOfGoal(value, goal) ==
  IF ~IsFinite(value) \/ ~IsFinite(goal) \/ goal <= 0 THEN 0
  ELSE clampPct(MathRound(value * 100, goal))

\* the CSS colours `rgb(r,g,b)` and `rgba(r,g,b,a)`: the function and its
\* arguments, alpha in hundredths
Rgb(r, g, b) == <<"rgb", r, g, b>>

Rgba(r, g, b, a) == <<"rgba", r, g, b, a>>

\* Math.max(0, Math.min(1, t)) of t = n / d, as the numerator over d > 0
ClampUnit(n, d) == IF n < 0 THEN 0 ELSE IF n > d THEN d ELSE n

\* Math.round(from + (to - from) * t) for t = n / d
Blend(from, to, n, d) == MathRound(from * d + (to - from) * n, d)

\* value and reference in the same unit
ratioColor(value, reference) ==
  IF ~IsFinite(value) \/ ~IsFinite(reference) \/ reference <= 0
  THEN Rgba(242, 244, 248, 90)
  ELSE IF 100 * (IF value < reference THEN reference - value ELSE value - reference)
            <= 3 * reference
  THEN Rgb(242, 244, 248)
  ELSE IF value < reference
  THEN \* t = (ratio - 0.5) / 0.5
       LET n == ClampUnit(2 * value - reference, reference)
       IN Rgb(Blend(70, 242, n, reference), Blend(200, 244, n, reference),
              Blend(120, 248, n, reference))
  ELSE \* t = (ratio - 1.0) / 1.0
       LET n == ClampUnit(value - reference, reference)
       IN Rgb(Blend(242, 255, n, reference), Blend(244, 107, n, reference),
              Blend(248, 107, n, reference))

(* ---------------------------- State Document --------------------------- *)
DefaultGoals == [kcal |-> 2500, protein |-> 160, price |-> 15, carbs |-> 300, fat |-> 80]

GoalFields == {"kcal", "protein", "price", "carbs", "fat"}

EmptyDayLogs == [k \in {} |-> << >>]

EmptyState ==
  [ingredients |-> << >>, recipes |-> << >>, dayLogs |-> EmptyDayLogs,
   goals |-> DefaultGoals, schemaVersion |-> 0]

\* getDayLog: a read that stores an empty list under a key not yet seen
getDayLog(dayLogs, key) ==
  IF key \in DOMAIN dayLogs THEN dayLogs ELSE dayLogs @@ (key :> << >>)

\* the predicate of getVisibleDayEntries' filter
EntryResolves(st, entry) ==
  IF entry.type = "ingredient" THEN SomeId(st.ingredients, entry.refId)
  ELSE SomeId(st.recipes, entry.refId)

getVisibleDayEntries(st, key) ==
  LET log == getDayLog(st.dayLogs, key)[key]
      ok(e) == EntryResolves(st, e)
  IN SelectSeq(log, ok)

\* the loop of calcTotalsForEntries over the first n entries
RECURSIVE EntriesLoop(_, _, _)
EntriesLoop(st, entries, n) ==
  IF n = 0 THEN ZeroTotals
  ELSE LET t == EntriesLoop(st, entries, n - 1)
           e == entries[n]
       IN IF e.type = "ingredient"
          THEN LET k == FindIndex(st.ingredients, e.refId)
               IN IF k = 0 THEN t
                  ELSE AddTotals(t, calcIngredientTotals(st.ingredients[k], e.amount))
          ELSE LET k == FindIndex(st.recipes, e.refId)
               IN IF k = 0 THEN t
                  ELSE AddTotals(t, ScaleTotals(calcRecipeTotals(st.recipes[k], st.ingredients),
                                                e.amount))

calcTotalsForEntries(st, entries) == EntriesLoop(st, entries, Len(entries))

\* what renderDay shows for the day: its visible entries and their totals
DayView(st, key) ==
  [entries |-> getVisibleDayEntries(st, key),
   totals |-> calcTotalsForEntries(st, getVisibleDayEntries(st, key))]

\* what renderDay shows in the block of a meal: the visible entries filed
\* under the meal and their totals
MealView(st, key, meal) ==
  LET inMeal(e) == normalizeEntryMeal(e) = meal
  IN [entries |-> SelectSeq(getVisibleDayEntries(st, key), inMeal),
      totals |-> calcTotalsForEntries(st, SelectSeq(getVisibleDayEntries(st, key), inMeal))]

(* ----------------------------- persistence ----------------------------- *)
\* A raw JSON document.  Every part carries the dynamic type the checks of
\* loadState and of the import handler look at.
EmptyRoot ==
  [isObject |-> FALSE,
   ingredients |-> [isArray |-> FALSE, val |-> << >>],
   recipes |-> [isArray |-> FALSE, val |-> << >>],
   dayLogs |-> [isObject |-> FALSE, val |-> EmptyDayLogs],
   goals |-> [isObject |-> FALSE, val |-> DefaultGoals],
   schemaVersion |-> 0]

\* localStorage.getItem returns null
Absent == [kind |-> "absent", root |-> EmptyRoot]

\* a stored string JSON.parse throws on
Corrupt == [kind |-> "corrupt", root |-> EmptyRoot]

\* JSON.stringify(state)
Serialize(st) ==
  [kind |-> "json",
   root |-> [isObject |-> TRUE,
             ingredients |-> [isArray |-> TRUE, val |-> st.ingredients],
             recipes |-> [isArray |-> TRUE, val |-> st.recipes],
             dayLogs |-> [isObject |-> TRUE, val |-> st.dayLogs],
             goals |-> [isObject |-> TRUE, val |-> st.goals],
             schemaVersion |-> st.schemaVersion]]

\* a variant of the goal defaulting that keeps every value as it is
KeepGoals(g) == g

\* Number.isFinite(v) ? v : default, for each of the five goal fields
FillGoals(g) == [f \in GoalFields |-> IF IsFinite(g[f]) THEN g[f] ELSE DefaultGoals[f]]

\* the object JSON.parse returns, after the assignments of loadState / import
ParsedState(root, goals) ==
  [ingredients |-> root.ingredients.val, recipes |-> root.recipes.val,
   dayLogs |-> root.dayLogs.val, goals |-> goals, schemaVersion |-> root.schemaVersion]

\* a variant of the load that falls back to the empty document when a part of
\* the stored one has the wrong type
loadStateOrNothing(raw) ==
  IF /\ raw.kind = "json"
     /\ raw.root.isObject
     /\ raw.root.ingredients.isArray
     /\ raw.root.recipes.isArray
     /\ raw.root.dayLogs.isObject
     /\ raw.root.goals.isObject
  THEN ParsedState(raw.root, FillGoals(raw.root.goals.val))
  ELSE EmptyState

loadState(raw) ==
  IF raw.kind # "json" \/ ~raw.root.isObject THEN EmptyState
  ELSE [ingredients |-> IF raw.root.ingredients.isArray THEN raw.root.ingredients.val ELSE << >>,
        recipes |-> IF raw.root.recipes.isArray THEN raw.root.recipes.val ELSE << >>,
        dayLogs |-> IF raw.root.dayLogs.isObject THEN raw.root.dayLogs.val ELSE EmptyDayLogs,
        goals |-> FillGoals(IF raw.root.goals.isObject THEN raw.root.goals.val ELSE DefaultGoals),
        schemaVersion |-> raw.root.schemaVersion]

\* a variant of the structural checks without the check of goals
ImportAcceptsAnyGoals(raw) ==
  /\ raw.kind = "json"
  /\ raw.root.isObject
  /\ raw.root.ingredients.isArray
  /\ raw.root.recipes.isArray
  /\ raw.root.dayLogs.isObject

\* the structural checks of the import handler: TRUE when none of them throws
ImportAccepts(raw) ==
  /\ raw.kind = "json"
  /\ raw.root.isObject
  /\ raw.root.ingredients.isArray
  /\ raw.root.recipes.isArray
  /\ raw.root.dayLogs.isObject
  /\ raw.root.goals.isObject

\* the document the import handler assigns to state
ImportedState(raw) == ParsedState(raw.root, FillGoals(raw.root.goals.val))

(* ------------------------- documents and inputs ------------------------ *)
FirstDay == DaysFromCivil(2024, 5, 31)

\* the key of day index n
KeyOfDay(n) == dayKeyFromDate(AtLocal(n, 0))

\* wall-clock seconds the clock stops at: 04:29:59 and 04:30:00
WallSeconds == {RolloverShift - 1, RolloverShift}

Clock == {AtLocal(FirstDay + d, w) : d \in 0..(MaxDays - 1), w \in WallSeconds}

Ing(id, name, unitType, kcal, protein, carbs, fat, price) ==
  [id |-> id, name |-> name, brand |-> "", unitType |-> unitType, kcal |-> kcal,
   protein |-> protein, carbs |-> carbs, fat |-> fat, price |-> price]

Line(ingredientId, amount) == [ingredientId |-> ingredientId, amount |-> amount]

Entry(id, type, refId, amount, meal) ==
  [id |-> id, type |-> type, refId |-> refId, amount |-> amount, meal |-> meal]

IngOats == Ing(101, "Oats", "100g", 389, 13, 66, 7, 19)
IngEgg == Ing(102, "Egg", "piece", 78, 6, 1, 5, 30)

\* a recipe with a line whose ingredient (199) is in no document
RecBowl ==
  [id |-> 201, name |-> "Bowl", items |-> <<Line(101, 80), Line(199, 50)>>,
   itemsIsArray |-> TRUE]

\* a recipe of a hand-written document: items is no array
RecBroken == [id |-> 202, name |-> "Broken", items |-> << >>, itemsIsArray |-> FALSE]

EntOats == Entry(301, "ingredient", 101, 80, "breakfast")
\* an entry of an old document: no meal
EntBowl == Entry(302, "recipe", 201, 2, "")
EntEgg == Entry(303, "ingredient", 102, 2, "lunch")
\* an ingredient entry whose ingredient is in no document
EntStale == Entry(304, "ingredient", 199, 50, "dinner")
\* a recipe entry whose refId is the id of an ingredient only
EntCross == Entry(305, "recipe", 101, 1, "dinner")

\* Ledgers of the documents, of days before the clock's window: one day; and
\* an older day with an empty list, then two days with entries.
LedgerOne == (KeyOfDay(FirstDay - 1) :> <<EntOats, EntBowl, EntEgg>>)
LedgerTwo ==
  (KeyOfDay(FirstDay - 3) :> << >>) @@ (KeyOfDay(FirstDay - 2) :> <<EntOats>>)
  @@ (KeyOfDay(FirstDay - 1) :> <<EntEgg, EntStale, EntCross, EntBowl>>)

CustomGoals == [kcal |-> 2000, protein |-> 150, price |-> 10, carbs |-> 250, fat |-> 70]

\* goals of documents: every field there; one field not finite; none finite;
\* a field that is finite and not greater than 0
DocGoals ==
  {CustomGoals, [f \in GoalFields |-> NaN]}
  \cup {[CustomGoals EXCEPT ![f] = NaN] : f \in GoalFields}
  \cup {[CustomGoals EXCEPT !.price = 0], [CustomGoals EXCEPT !.carbs = -5]}

Root(ingredients, recipes, dayLogs, goals, version) ==
  [isObject |-> TRUE,
   ingredients |-> [isArray |-> TRUE, val |-> ingredients],
   recipes |-> [isArray |-> TRUE, val |-> recipes],
   dayLogs |-> [isObject |-> TRUE, val |-> dayLogs],
   goals |-> [isObject |-> TRUE, val |-> goals],
   schemaVersion |-> version]

FullRoot == Root(<<IngOats, IngEgg>>, <<RecBowl>>, LedgerTwo, CustomGoals, 2)

\* documents that pass the structural checks
GoodRoots ==
  {Root(<<IngOats, IngEgg>>, <<RecBowl>>, LedgerTwo, g, 2) : g \in DocGoals}
  \cup {Root(<<IngOats, IngEgg>>, << >>, LedgerOne, CustomGoals, 0),
        Root(<< >>, << >>, EmptyDayLogs, CustomGoals, 0)}

\* documents with one part of the wrong type
BadRoots ==
  {[FullRoot EXCEPT !.isObject = FALSE],
   [FullRoot EXCEPT !.ingredients.isArray = FALSE],
   [FullRoot EXCEPT !.recipes.isArray = FALSE],
   [FullRoot EXCEPT !.dayLogs.isObject = FALSE],
   [FullRoot EXCEPT !.goals.isObject = FALSE]}

\* a document that passes the structural checks and holds a recipe whose
\* items is no array
BrokenRoot == Root(<<IngOats, IngEgg>>, <<RecBowl, RecBroken>>, LedgerOne, CustomGoals, 0)

\* a document that passes the structural checks and holds two entries of one
\* day with the same id, one of them with a meal that is none of the four
EntTwin == Entry(301, "ingredient", 102, 1, "brunch")

TwinRoot ==
  Root(<<IngOats, IngEgg>>, <<RecBowl>>,
       (KeyOfDay(FirstDay - 1) :> <<EntOats, EntEgg, EntTwin>>), CustomGoals, 2)

Json(r) == [kind |-> "json", root |-> r]

Documents == {Corrupt} \cup {Json(r) : r \in GoodRoots \cup BadRoots \cup {BrokenRoot}}

\* what localStorage may hold when the page is opened
StoredDocuments == {Absent} \cup Documents

\* parsed values of the ingredient form: two that pass, three that do not
FormIngredients ==
  {Ing(0, "Milk", "100ml", 64, 3, 5, 4, 12), Ing(0, "Egg", "piece", 78, 6, 1, 5, 30),
   Ing(0, " ", "100g", 1, 1, 1, 1, 1), Ing(0, "Milk", "100g", NaN, 3, 5, 4, 12),
   Ing(0, "Milk", "100g", 64, 3, 5, -1, 12)}

\* parsed values of an amount or factor field
FormAmounts == {NaN, -1, 0, 2}

\* parsed values of the goals form: one that passes, and for every field one
\* that is not a number and one that is 0
FormGoal == [kcal |-> 1800, protein |-> 120, price |-> 12, carbs |-> 200, fat |-> 60]

FormGoals ==
  {FormGoal} \cup {[FormGoal EXCEPT ![f] = v] : f \in GoalFields, v \in {NaN, 0}}

FormNames == {" ", "Soup"}

\* the meal dialogs entries are logged from
FormMeals == {"breakfast", "dinner"}

\* String.prototype.trim
Trim(s) == IF s = " " THEN "" ELSE s

(* -------------------------------- state -------------------------------- *)
VARIABLES
  state,                   \* the in-memory State Document
  persisted,               \* localStorage[LS_KEY]
  selectedDayKey,
  todayKeyFromLastRender,
  now,                     \* the clock: new Date()
  nextUid,                 \* the next id uid() returns
  importPending,           \* an import awaits file.text()
  exported,                \* the file the last export has downloaded
  recipeDraft,             \* window.__recipeDraft
  editingRecipeId,         \* 0 for null
  modal,                   \* the recipe editor's view in the modal container: "editor",
                           \* "picker", or "none" (closed, or another dialog is shown)
  btnPrevDisabled,
  btnNextDisabled,
  lastEvent                \* history: the handler that ran last, how it ended, the id
                           \* it was about and the document or form values it was given

vars ==
  <<state, persisted, selectedDayKey, todayKeyFromLastRender, now, nextUid,
    importPending, exported, recipeDraft, editingRecipeId, modal, btnPrevDisabled,
    btnNextDisabled, lastEvent>>

Ev(name, id, raw) == [name |-> name, id |-> id, raw |-> raw]

\* window.__recipeDraft after resetRecipeDraft().  itemsOf is the id of the
\* saved recipe whose items array is the draft's items array, 0 when the
\* draft's array is its own.
EmptyDraft == [id |-> 0, name |-> "", items |-> << >>, itemsOf |-> 0]

\* Keys of the ledger whose list is not empty.
NonEmptyKeys(dayLogs) == {k \in DOMAIN dayLogs : Len(dayLogs[k]) > 0}

\* a variant of the oldest key that counts the days with an empty list
OldestStoredKeyOfAll(dayLogs) ==
  IF DOMAIN dayLogs = {} THEN 0
  ELSE CHOOSE k \in DOMAIN dayLogs : \A j \in DOMAIN dayLogs : k <= j

\* getOldestStoredDayKeyOrNull, 0 for null
getOldestStoredDayKeyOrNull(dayLogs) ==
  IF NonEmptyKeys(dayLogs) = {} THEN 0
  ELSE CHOOSE k \in NonEmptyKeys(dayLogs) : \A j \in NonEmptyKeys(dayLogs) : k <= j

\* renderRecipes computes the totals of every recipe it lists: with the
\* recipe search field empty it throws when one of them has no array of items
renderThrows(st) == \E i \in 1..Len(st.recipes) : RecipeThrows(st.recipes[i])

\* renderAll at instant t: the rollover sync, renderDay's read of the selected
\* day, and, unless rendering throws, updateDateBar and the note of today's key.
\* bar is the date bar as it was: <<btnPrevDisabled, btnNextDisabled>>.
renderAll(st, sel, lastKey, bar, t) ==
  LET todayKey == nowDayKeyRollover0430(t)
      sel2 == IF sel = lastKey /\ todayKey # lastKey THEN todayKey ELSE sel
      st2 == [st EXCEPT !.dayLogs = getDayLog(@, sel2)]
      oldest == getOldestStoredDayKeyOrNull(st2.dayLogs)
  IN IF renderThrows(st2)
     THEN [state |-> st2, selectedDayKey |-> sel2, todayKeyFromLastRender |-> lastKey,
           btnPrevDisabled |-> bar[1], btnNextDisabled |-> bar[2], threw |-> TRUE]
     ELSE [state |-> st2, selectedDayKey |-> sel2, todayKeyFromLastRender |-> todayKey,
           btnPrevDisabled |-> IF oldest = 0 THEN TRUE ELSE sel2 <= oldest,
           btnNextDisabled |-> (sel2 = todayKey), threw |-> FALSE]

\* The page after its script has run: loadState, then renderAll and setTab.
\* The date bar's buttons start enabled.
InitFrom(stored, clock) ==
  /\ now \in clock
  /\ persisted \in stored
  /\ LET k == nowDayKeyRollover0430(now)
         r == renderAll(loadState(persisted), k, k, <<FALSE, FALSE>>, now)
     IN /\ state = r.state
        /\ selectedDayKey = r.selectedDayKey
        /\ todayKeyFromLastRender = r.todayKeyFromLastRender
        /\ btnPrevDisabled = r.btnPrevDisabled
        /\ btnNextDisabled = r.btnNextDisabled
  /\ nextUid = 1
  /\ importPending = FALSE
  /\ exported = Absent
  /\ recipeDraft = EmptyDraft
  /\ editingRecipeId = 0
  /\ modal = "none"
  /\ lastEvent = Ev("load", 0, Absent)

Init == InitFrom(StoredDocuments, Clock)

\* the primed variables renderAll decides, from its result r
Rendered(r) ==
  /\ state' = r.state
  /\ selectedDayKey' = r.selectedDayKey
  /\ todayKeyFromLastRender' = r.todayKeyFromLastRender
  /\ btnPrevDisabled' = r.btnPrevDisabled
  /\ btnNextDisabled' = r.btnNextDisabled

\* the tail of a handler: renderAll() on document st with day sel selected
Render(st, sel) ==
  Rendered(renderAll(st, sel, todayKeyFromLastRender,
                     <<btnPrevDisabled, btnNextDisabled>>, now))

\* saveState(); closeModal(); renderAll() after the document became st
SaveCloseRender(st) ==
  /\ persisted' = Serialize(st)
  /\ modal' = "none"
  /\ Render(st, selectedDayKey)

\* a handler that returns after an alert, at once, or by an exception, having
\* changed nothing
Refuse(event) ==
  /\ lastEvent' = event
  /\ UNCHANGED <<state, persisted, selectedDayKey, todayKeyFromLastRender, now, nextUid,
                 importPending, exported, recipeDraft, editingRecipeId, modal, btnPrevDisabled,
                 btnNextDisabled>>

(* -------------------------------- clock -------------------------------- *)
\* time passes: the clock never goes backwards
TickIn(clock) ==
  /\ \E t \in clock : t > now /\ now' = t
  /\ lastEvent' = Ev("tick", 0, Absent)
  /\ UNCHANGED <<state, persisted, selectedDayKey, todayKeyFromLastRender, nextUid,
                 importPending, exported, recipeDraft, editingRecipeId, modal, btnPrevDisabled,
                 btnNextDisabled>>

Tick == TickIn(Clock)

(* ------------------------------ navigation ----------------------------- *)
\* setTab(name): a tab button
SetTab ==
  /\ modal = "none"
  /\ Render(state, selectedDayKey)
  /\ lastEvent' = Ev("setTab", 0, Absent)
  /\ UNCHANGED <<persisted, now, nextUid, importPending, exported, recipeDraft,
                 editingRecipeId, modal>>

PrevDayKey(key) == dayKeyFromDate(addDays(dateFromDayKey(key), -1))

NextDayKey(key) == dayKeyFromDate(addDays(dateFromDayKey(key), 1))

\* the two returns of the previous-day handler
PrevDayRefused(dayLogs, sel) ==
  \/ getOldestStoredDayKeyOrNull(dayLogs) = 0
  \/ PrevDayKey(sel) < getOldestStoredDayKeyOrNull(dayLogs)

btnPrevDayClick ==
  /\ modal = "none"
  /\ ~btnPrevDisabled
  /\ IF PrevDayRefused(state.dayLogs, selectedDayKey)
     THEN Refuse(Ev("prevDay.return", 0, Absent))
     ELSE /\ Render(state, PrevDayKey(selectedDayKey))
          /\ lastEvent' = Ev("prevDay", 0, Absent)
          /\ UNCHANGED <<persisted, now, nextUid, importPending, exported, recipeDraft,
                         editingRecipeId, modal>>

\* a variant of the next-day handler without its two returns
NextDayNeverRefused(sel, todayKey) == FALSE

\* the two returns of the next-day handler
NextDayRefused(sel, todayKey) == sel >= todayKey \/ NextDayKey(sel) > todayKey

btnNextDayClick ==
  /\ modal = "none"
  /\ ~btnNextDisabled
  /\ IF NextDayRefused(selectedDayKey, nowDayKeyRollover0430(now))
     THEN Refuse(Ev("nextDay.return", 0, Absent))
     ELSE /\ Render(state, NextDayKey(selectedDayKey))
          /\ lastEvent' = Ev("nextDay", 0, Absent)
          /\ UNCHANGED <<persisted, now, nextUid, importPending, exported, recipeDraft,
                         editingRecipeId, modal>>

(* ------------------------------- import -------------------------------- *)
\* importFile change: the handler runs up to await file.text()
ImportStart ==
  /\ modal = "none"
  /\ ~importPending
  /\ importPending' = TRUE
  /\ lastEvent' = Ev("import.reading", 0, Absent)
  /\ UNCHANGED <<state, persisted, selectedDayKey, todayKeyFromLastRender, now, exported, nextUid,
                 recipeDraft, editingRecipeId, modal, btnPrevDisabled, btnNextDisabled>>

\* the day the import handler keeps selected
ImportSelection(sel, todayKey) == IF sel > todayKey THEN todayKey ELSE sel

\* the rest of the handler, with the file's text raw in hand
ImportResumeWith(documents) ==
  /\ importPending
  /\ importPending' = FALSE
  /\ \E raw \in documents :
       IF ~ImportAccepts(raw)
       THEN /\ lastEvent' = Ev("import.alert", 0, raw)
            /\ UNCHANGED <<state, persisted, selectedDayKey, todayKeyFromLastRender, now, exported,
                           nextUid, recipeDraft, editingRecipeId, modal, btnPrevDisabled,
                           btnNextDisabled>>
       ELSE LET st == ImportedState(raw)
                sel == ImportSelection(selectedDayKey, nowDayKeyRollover0430(now))
                r1 == renderAll(st, sel, todayKeyFromLastRender,
                                <<btnPrevDisabled, btnNextDisabled>>, now)
                \* setTab("day") renders once more
                r2 == renderAll(r1.state, r1.selectedDayKey, r1.todayKeyFromLastRender,
                                <<r1.btnPrevDisabled, r1.btnNextDisabled>>, now)
            IN /\ persisted' = Serialize(st)
               /\ modal' = "none"
               /\ Rendered(IF r1.threw THEN r1 ELSE r2)
               \* an exception of renderAll lands in the handler's catch
               /\ lastEvent' = Ev(IF r1.threw THEN "import.alert" ELSE "import.done", 0, raw)
               \* the recipes of the parsed document are new objects
               /\ recipeDraft' = [recipeDraft EXCEPT !.itemsOf = 0]
               /\ UNCHANGED <<now, exported, nextUid, editingRecipeId>>

ImportResume == ImportResumeWith(Documents)

\* JSON.stringify({ ...state, schemaVersion: 2 }, null, 2)
ExportOf(st) == [Serialize(st) EXCEPT !.root.schemaVersion = 2]

\* click on "export": the file is downloaded
btnExportClick ==
  /\ modal = "none"
  /\ exported' = ExportOf(state)
  /\ lastEvent' = Ev("export", 0, Absent)
  /\ UNCHANGED <<state, persisted, selectedDayKey, todayKeyFromLastRender, now, nextUid,
                 importPending, recipeDraft, editingRecipeId, modal, btnPrevDisabled,
                 btnNextDisabled>>

\* the import is given the file the last export has downloaded
ImportExported == exported # Absent /\ ImportResumeWith({exported})

(* -------------------------------- goals -------------------------------- *)
GoalInputOk(v) == IsFinite(v) /\ ~(v <= 0)

GoalsSubmitOf(forms) ==
  /\ modal = "none"
  /\ \E g \in forms :
       IF \E f \in GoalFields : ~GoalInputOk(g[f])
       THEN Refuse(Ev("goals.alert", 0, g))
       ELSE /\ SaveCloseRender([state EXCEPT !.goals = g])
            /\ lastEvent' = Ev("goals.saved", 0, g)
            /\ UNCHANGED <<now, nextUid, importPending, exported, recipeDraft, editingRecipeId>>

GoalsSubmit == GoalsSubmitOf(FormGoals)

(* ----------------------------- ingredients ----------------------------- *)
\* the checks of the ingredient form's submit handler
IngredientInputOk(f) ==
  /\ Trim(f.name) # ""
  /\ f.unitType \in {"100g", "100ml", "piece"}
  /\ \A v \in {f.kcal, f.protein, f.carbs, f.fat, f.price} : IsFinite(v) /\ ~(v < 0)

IdsOf(seq) == {seq[i].id : i \in 1..Len(seq)}

\* uid(): ids no document holds
uid(n) == 400 + n

\* the id of an ingredient dialog whose ingredient an import has replaced
StaleId == 200 - 1

\* submit of the dialog opened by "new ingredient"; uid() hands out ids up to
\* uid(last)
IngredientCreateUpTo(forms, last) ==
  /\ modal = "none"
  /\ nextUid <= last
  /\ \E f \in forms :
       IF ~IngredientInputOk(f)
       THEN Refuse(Ev("ingredient.alert", 0, f))
       ELSE /\ SaveCloseRender([state EXCEPT !.ingredients =
                                  Append(@, [f EXCEPT !.id = uid(nextUid), !.name = Trim(f.name)])])
            /\ nextUid' = nextUid + 1
            /\ lastEvent' = Ev("ingredient.created", uid(nextUid), f)
            /\ UNCHANGED <<now, importPending, exported, recipeDraft, editingRecipeId>>

IngredientCreate(forms) == IngredientCreateUpTo(forms, MaxUid)

\* a variant of the update that takes the ingredient out and appends the new one
ReplacedAtEnd(ingredients, editingId, f) ==
  LET keep(x) == x.id # editingId
  IN Append(SelectSeq(ingredients, keep), [f EXCEPT !.id = editingId, !.name = Trim(f.name)])

\* the ingredients after the assignments to the fields of
\* state.ingredients.find(x => x.id === editingId)
UpdatedIngredients(ingredients, editingId, f) ==
  [ingredients EXCEPT ![FindIndex(ingredients, editingId)] =
     [f EXCEPT !.id = editingId, !.name = Trim(f.name)]]

\* submit of the dialog opened on ingredient editingId
IngredientUpdate(forms) ==
  /\ modal = "none"
  /\ \E editingId \in IdsOf(state.ingredients) \cup {StaleId}, f \in forms :
       IF ~IngredientInputOk(f)
       THEN Refuse(Ev("ingredient.alert", editingId, f))
       ELSE IF ~SomeId(state.ingredients, editingId)
       THEN Refuse(Ev("ingredient.update.return", editingId, f))
       ELSE /\ SaveCloseRender([state EXCEPT
                 !.ingredients = UpdatedIngredients(@, editingId, f)])
            /\ lastEvent' = Ev("ingredient.updated", editingId, f)
            /\ UNCHANGED <<now, nextUid, importPending, exported, recipeDraft, editingRecipeId>>

\* r.items.some(it => it.ingredientId === id), of a recipe whose items is an array
LineRefers(recipe, id) ==
  recipe.itemsIsArray /\ \E j \in 1..Len(recipe.items) : recipe.items[j].ingredientId = id

\* state.recipes.some(r => r.items.some(...)) throws when it comes to a recipe
\* whose items is no array before it comes to one that holds the ingredient
usedInRecipesThrows(recipes, id) ==
  \E i \in 1..Len(recipes) :
    /\ RecipeThrows(recipes[i])
    /\ \A j \in 1..(i - 1) : ~LineRefers(recipes[j], id)

\* a variant of the guard that looks at the last line of every recipe only
usedInLastLine(recipes, id) ==
  \E i \in 1..Len(recipes) :
    /\ Len(recipes[i].items) > 0
    /\ recipes[i].items[Len(recipes[i].items)].ingredientId = id

usedInRecipes(recipes, id) == \E i \in 1..Len(recipes) : LineRefers(recipes[i], id)

\* Array.prototype.filter(x => x.id !== id)
WithoutId(seq, id) == LET keep(x) == x.id # id IN SelectSeq(seq, keep)

\* a variant of the delete that purges the ledger of the entries referring to the ingredient
DeleteIngredientCascade(st, id) ==
  [st EXCEPT !.ingredients = WithoutId(@, id),
             !.dayLogs = [k \in DOMAIN @ |-> NotReferring(@[k], "ingredient", id)]]

\* the document after the ingredient delete handler's filter
DeleteIngredientFrom(st, id) == [st EXCEPT !.ingredients = WithoutId(@, id)]

\* click on the delete button of the dialog opened on ingredient editingId
IngredientDelete ==
  /\ modal = "none"
  /\ \E editingId \in IdsOf(state.ingredients) \cup {StaleId} :
       IF ~SomeId(state.ingredients, editingId)
       THEN Refuse(Ev("ingredient.delete.return", editingId, Absent))
       ELSE IF usedInRecipesThrows(state.recipes, editingId)
       THEN Refuse(Ev("ingredient.delete.threw", editingId, Absent))
       ELSE IF usedInRecipes(state.recipes, editingId)
       THEN Refuse(Ev("ingredient.delete.alert", editingId, Absent))
       ELSE /\ SaveCloseRender(DeleteIngredientFrom(state, editingId))
            /\ lastEvent' = Ev("ingredient.deleted", editingId, Absent)
            /\ UNCHANGED <<now, nextUid, importPending, exported, recipeDraft, editingRecipeId>>

(* ------------------------------- recipes ------------------------------- *)
\* a variant of the draft that takes the array of the recipe's lines as it is
DraftSharing(r) == [id |-> r.id, name |-> r.name, items |-> r.items, itemsOf |-> r.id]

\* { id: r.id, name: r.name, items: r.items.map(x => ({ ...x })) }: the draft
\* of a saved recipe, with copies of its lines in an array of its own
DraftOf(r) == [id |-> r.id, name |-> r.name, items |-> r.items, itemsOf |-> 0]

\* The document after the draft's items array has become items: push and splice
\* change the array in place, so a saved recipe that holds the same array has
\* the same lines.
WithDraftItems(st, draft, items) ==
  IF draft.itemsOf # 0 /\ SomeId(st.recipes, draft.itemsOf)
  THEN [st EXCEPT !.recipes[FindIndex(st.recipes, draft.itemsOf)].items = items]
  ELSE st

\* openRecipeEditorModal(id): 0 for the "new recipe" button, else a row of the
\* recipe list.  r.items.map throws on a recipe whose items is no array, after
\* editingRecipeId was set.
RecipeEditorOpen ==
  /\ modal = "none"
  /\ \E id \in IdsOf(state.recipes) \cup {0} :
       /\ editingRecipeId' = id
       /\ IF id = 0
          THEN /\ recipeDraft' = EmptyDraft
               /\ modal' = "editor"
               /\ lastEvent' = Ev("recipe.open", id, Absent)
          ELSE LET r == state.recipes[FindIndex(state.recipes, id)]
               IN IF RecipeThrows(r)
                  THEN /\ lastEvent' = Ev("recipe.open.threw", id, Absent)
                       /\ UNCHANGED <<recipeDraft, modal>>
                  ELSE /\ recipeDraft' = DraftOf(r)
                       /\ modal' = "editor"
                       /\ lastEvent' = Ev("recipe.open", id, Absent)
  /\ UNCHANGED <<state, persisted, selectedDayKey, todayKeyFromLastRender, now, nextUid,
                 importPending, exported, btnPrevDisabled, btnNextDisabled>>

\* input on the name field of the editor
RecipeNameInput ==
  /\ modal = "editor"
  /\ \E name \in FormNames : recipeDraft' = [recipeDraft EXCEPT !.name = name]
  /\ lastEvent' = Ev("recipe.name", editingRecipeId, Absent)
  /\ UNCHANGED <<state, persisted, selectedDayKey, todayKeyFromLastRender, now, nextUid,
                 importPending, exported, editingRecipeId, modal, btnPrevDisabled, btnNextDisabled>>

\* click on "add ingredient" in the editor
RecipeAddClick ==
  /\ modal = "editor"
  /\ IF Len(state.ingredients) = 0
     THEN Refuse(Ev("recipe.add.alert", editingRecipeId, Absent))
     ELSE /\ modal' = "picker"
          /\ lastEvent' = Ev("recipe.picker", editingRecipeId, Absent)
          /\ UNCHANGED <<state, persisted, selectedDayKey, todayKeyFromLastRender, now,
                         nextUid, importPending, exported, recipeDraft, editingRecipeId,
                         btnPrevDisabled, btnNextDisabled>>

\* a variant of the check that lets an amount of 0 pass
AmountNotNegative(n) == IsFinite(n) /\ ~(n < 0)

\* the check of an amount or factor
AmountInputOk(n) == IsFinite(n) /\ ~(n <= 0)

\* click on "add" in a row of the editor's ingredient picker
RecipePickerAdd ==
  /\ modal = "picker"
  /\ Len(recipeDraft.items) < MaxItems
  /\ \E i \in 1..Len(state.ingredients), n \in FormAmounts :
       IF ~AmountInputOk(n)
       THEN Refuse(Ev("recipe.line.alert", editingRecipeId, [amount |-> n]))
       ELSE /\ recipeDraft' = [recipeDraft EXCEPT
                                 !.items = Append(@, Line(state.ingredients[i].id, n))]
            /\ state' = WithDraftItems(state, recipeDraft, recipeDraft'.items)
            \* closeModal(); onDone() opens the editor again, keeping the draft
            /\ modal' = "editor"
            /\ lastEvent' = Ev("recipe.line.added", editingRecipeId, [amount |-> n])
            /\ UNCHANGED <<persisted, selectedDayKey, todayKeyFromLastRender, now,
                           nextUid, importPending, exported, editingRecipeId, btnPrevDisabled,
                           btnNextDisabled>>

\* Array.prototype.splice(idx, 1), idx counted from 1
Splice(seq, idx) == SubSeq(seq, 1, idx - 1) \o SubSeq(seq, idx + 1, Len(seq))

\* click on "remove" of the editor's line idx
RecipeRemoveLine ==
  /\ modal = "editor"
  /\ \E idx \in 1..Len(recipeDraft.items) :
       recipeDraft' = [recipeDraft EXCEPT !.items = Splice(@, idx)]
  /\ state' = WithDraftItems(state, recipeDraft, recipeDraft'.items)
  /\ lastEvent' = Ev("recipe.line.removed", editingRecipeId, Absent)
  /\ UNCHANGED <<persisted, selectedDayKey, todayKeyFromLastRender, now, nextUid,
                 importPending, exported, editingRecipeId, modal, btnPrevDisabled, btnNextDisabled>>

\* the recipes after the submit handler's edit branch
ReplaceRecipe(recipes, id, draft) ==
  IF FindIndex(recipes, id) = 0 THEN recipes
  ELSE [recipes EXCEPT ![FindIndex(recipes, id)] =
          [id |-> id, name |-> draft.name, items |-> draft.items, itemsIsArray |-> TRUE]]

\* a variant of the check that takes every draft to have lines
DraftNeverEmpty(draft) == FALSE

\* !draft.items || draft.items.length === 0
DraftIsEmpty(draft) == Len(draft.items) = 0

\* submit of the editor; uid() hands out ids up to uid(last)
RecipeSubmitUpTo(last) ==
  /\ modal = "editor"
  /\ editingRecipeId = 0 => nextUid <= last
  /\ LET name == Trim(recipeDraft.name)
         draft == [recipeDraft EXCEPT !.name = name]
     IN IF name = ""
        THEN Refuse(Ev("recipe.alert", editingRecipeId, recipeDraft))
        ELSE IF DraftIsEmpty(draft)
        THEN /\ recipeDraft' = draft
             /\ lastEvent' = Ev("recipe.alert", editingRecipeId, recipeDraft)
             /\ UNCHANGED <<state, persisted, selectedDayKey, todayKeyFromLastRender, now,
                            nextUid, importPending, exported, editingRecipeId, modal,
                            btnPrevDisabled, btnNextDisabled>>
        ELSE IF editingRecipeId # 0
        THEN /\ SaveCloseRender([state EXCEPT
                  !.recipes = ReplaceRecipe(@, editingRecipeId, draft)])
             \* items: draft.items puts the draft's array into the saved recipe
             /\ recipeDraft' = [draft EXCEPT !.itemsOf =
                                  IF SomeId(state.recipes, editingRecipeId)
                                  THEN editingRecipeId ELSE @]
             /\ lastEvent' = Ev("recipe.updated", editingRecipeId, recipeDraft)
             /\ UNCHANGED <<now, nextUid, importPending, exported, editingRecipeId>>
        ELSE /\ SaveCloseRender([state EXCEPT !.recipes =
                  Append(@, [id |-> uid(nextUid), name |-> draft.name,
                             items |-> draft.items, itemsIsArray |-> TRUE])])
             /\ recipeDraft' = EmptyDraft
             /\ nextUid' = nextUid + 1
             /\ lastEvent' = Ev("recipe.created", uid(nextUid), recipeDraft)
             /\ UNCHANGED <<now, importPending, exported, editingRecipeId>>

RecipeSubmit == RecipeSubmitUpTo(MaxUid)

\* the document after the recipe delete handler's filter
DeleteRecipeFrom(st, id) == [st EXCEPT !.recipes = WithoutId(@, id)]

\* click on the delete button of the editor opened on a recipe
RecipeDelete ==
  /\ modal = "editor"
  /\ editingRecipeId # 0
  /\ IF ~SomeId(state.recipes, editingRecipeId)
     THEN Refuse(Ev("recipe.delete.return", editingRecipeId, Absent))
     ELSE /\ SaveCloseRender(DeleteRecipeFrom(state, editingRecipeId))
          \* the recipe that held the draft's array is in the document no more
          /\ recipeDraft' = [recipeDraft EXCEPT !.itemsOf =
                               IF @ = editingRecipeId THEN 0 ELSE @]
          /\ lastEvent' = Ev("recipe.deleted", editingRecipeId, Absent)
          /\ UNCHANGED <<now, nextUid, importPending, exported, editingRecipeId>>

\* the close button, or a click on the backdrop
CloseModal ==
  /\ modal # "none"
  /\ modal' = "none"
  /\ lastEvent' = Ev("modal.closed", 0, Absent)
  /\ UNCHANGED <<state, persisted, selectedDayKey, todayKeyFromLastRender, now, nextUid,
                 importPending, exported, recipeDraft, editingRecipeId, btnPrevDisabled,
                 btnNextDisabled>>

(* -------------------------------- ledger ------------------------------- *)
\* a variant of the push that puts the entry at the head of the day's list
UnshiftEntry(st, key, entry) ==
  [st EXCEPT !.dayLogs = [getDayLog(@, key) EXCEPT ![key] = <<entry>> \o @]]

\* getDayLog(key).push(entry)
PushEntry(st, key, entry) ==
  [st EXCEPT !.dayLogs = [getDayLog(@, key) EXCEPT ![key] = Append(@, entry)]]

\* click on "log" in a row of the day's ingredient or recipe picker, opened
\* from the dialog of meal mealKey: the row of refId with amount n
LogEntry(type, refId, n, mealKey) ==
  /\ modal = "none"
  /\ nextUid <= MaxUid
  /\ IF ~AmountInputOk(n)
     THEN Refuse(Ev("log.alert", 0, [amount |-> n]))
     ELSE /\ SaveCloseRender(PushEntry(state, selectedDayKey,
                                       Entry(uid(nextUid), type, refId, n, mealKey)))
          /\ nextUid' = nextUid + 1
          /\ lastEvent' = Ev("entry.logged", uid(nextUid), [amount |-> n])
          /\ UNCHANGED <<now, importPending, exported, recipeDraft, editingRecipeId>>

\* rows are the positions of the catalog the picker's rows are clicked at
LogIngredientOf(rows, amounts, meals) ==
  \E i \in (1..Len(state.ingredients)) \cap rows, n \in amounts, m \in meals :
    LogEntry("ingredient", state.ingredients[i].id, n, m)

LogIngredient == LogIngredientOf(1..Len(state.ingredients), FormAmounts, FormMeals)

\* The recipe picker computes the totals of every recipe it lists: it lists
\* them all when none of them throws.
LogRecipeOf(rows, amounts, meals) ==
  /\ ~renderThrows(state)
  /\ \E i \in (1..Len(state.recipes)) \cap rows, n \in amounts, m \in meals :
       LogEntry("recipe", state.recipes[i].id, n, m)

LogRecipe == LogRecipeOf(1..Len(state.recipes), FormAmounts, FormMeals)

\* the ids of the entries the meal dialogs of the selected day list
ListedEntryIds == IdsOf(getVisibleDayEntries(state, selectedDayKey))

\* the document after the entry delete handler's filter
RemoveEntryFrom(st, key, id) ==
  [st EXCEPT !.dayLogs = [getDayLog(@, key) EXCEPT ![key] = WithoutId(@, id)]]

\* click on "delete" of an entry in a meal dialog; the dialog stays open
EntryDelete ==
  /\ modal = "none"
  /\ \E id \in ListedEntryIds :
       LET st == RemoveEntryFrom(state, selectedDayKey, id)
       IN /\ persisted' = Serialize(st)
          /\ Render(st, selectedDayKey)
          /\ lastEvent' = Ev("entry.deleted", id, Absent)
  /\ UNCHANGED <<now, nextUid, importPending, exported, recipeDraft, editingRecipeId, modal>>

(* ---------------------------- specifications --------------------------- *)
Navigation == SetTab \/ btnPrevDayClick \/ btnNextDayClick

Import == btnExportClick \/ ImportStart \/ ImportResume \/ ImportExported

Catalog ==
  \/ GoalsSubmit
  \/ IngredientCreate(FormIngredients) \/ IngredientUpdate(FormIngredients) \/ IngredientDelete
  \/ RecipeEditorOpen \/ RecipeNameInput \/ RecipeAddClick \/ RecipePickerAdd
  \/ RecipeRemoveLine \/ RecipeSubmit \/ RecipeDelete \/ CloseModal

Ledger == LogIngredient \/ LogRecipe \/ EntryDelete

Next == Tick \/ Navigation \/ Import \/ Catalog \/ Ledger

Spec == Init /\ [][Next]_vars

(* Specifications of parts of the program, each with the documents and the
   inputs its handlers are given. *)

\* Date navigation while time passes, entries come and go and documents are
\* imported: among them a corrupt one and one rendering throws on.
NavDocuments ==
  {Corrupt, Json(FullRoot), Json(BrokenRoot),
   Json(Root(<<IngOats>>, << >>, EmptyDayLogs, CustomGoals, 0))}

InitNav == InitFrom({Absent, Json(FullRoot)}, Clock)

NavImportResume == ImportResumeWith(NavDocuments)

NavLog == LogIngredientOf({1}, {2}, {"breakfast"})

NextNav ==
  \/ Tick \/ SetTab \/ btnPrevDayClick \/ btnNextDayClick
  \/ ImportStart \/ NavImportResume \/ NavLog

SpecNav == InitNav /\ [][NextNav]_vars

\* Backward navigation within one day of the clock, while entries are logged
\* and deleted.
BackClock == {AtLocal(FirstDay, w) : w \in WallSeconds}

InitBack == InitFrom({Absent, Json(FullRoot)}, BackClock)

BackTick == TickIn(BackClock)

BackImportResume == ImportResumeWith({Json(FullRoot), Json(BrokenRoot)})

NextBack ==
  \/ BackTick \/ SetTab \/ btnPrevDayClick \/ btnNextDayClick
  \/ ImportStart \/ BackImportResume \/ NavLog \/ EntryDelete

SpecBack == InitBack /\ [][NextBack]_vars

\* The catalogs and the ledger at one instant: ingredients and recipes are
\* created, changed and deleted, entries logged and deleted.
CatalogClock == {AtLocal(FirstDay, RolloverShift)}

CatalogStored ==
  {Json(FullRoot), Json(Root(<<IngOats, IngEgg>>, <<RecBowl>>, LedgerOne, CustomGoals, 0))}

InitCatalog == InitFrom(CatalogStored, CatalogClock)

\* parsed values of the ingredient form: one that passes, one that does not
CatalogForms ==
  {Ing(0, "Milk", "100ml", 64, 3, 5, 4, 12), Ing(0, "Milk", "100g", NaN, 3, 5, 4, 12)}

CatalogCreate == IngredientCreate(CatalogForms)

CatalogUpdate == IngredientUpdate(CatalogForms)

CatalogLogIngredient == LogIngredientOf({1}, {NaN, 2}, {"dinner"})

CatalogLogRecipe == LogRecipeOf({1}, {0, 2}, {"dinner"})

NextCatalog ==
  \/ SetTab
  \/ CatalogCreate \/ CatalogUpdate \/ IngredientDelete
  \/ RecipeEditorOpen \/ RecipeRemoveLine \/ RecipeSubmit \/ RecipeDelete \/ CloseModal
  \/ CatalogLogIngredient \/ CatalogLogRecipe \/ EntryDelete

SpecCatalog == InitCatalog /\ [][NextCatalog]_vars

\* Startup load, the goals dialog and imports of every document.
InitImport == InitFrom(StoredDocuments, Clock)

ImportGoals ==
  GoalsSubmitOf({FormGoal, [FormGoal EXCEPT !.price = NaN], [FormGoal EXCEPT !.fat = 0]})

NextImport == Tick \/ SetTab \/ ImportStart \/ ImportResume \/ ImportGoals

SpecImport == InitImport /\ [][NextImport]_vars

\* The rollover on days the local clock is set forward or back, and on days
\* it is not: a tab is opened at every instant.
ShiftDays ==
  {DaysFromCivil(2024, 3, 30), DaysFromCivil(2024, 3, 31), DaysFromCivil(2024, 6, 2),
   DaysFromCivil(2024, 10, 27)}

\* wall-clock seconds: 00:00:00, 04:29:59, 04:30:00, 05:29:59, 05:30:00, 12:00:00
ShiftSeconds ==
  {0, RolloverShift - 1, RolloverShift, RolloverShift + 3600 - 1, RolloverShift + 3600,
   12 * 3600}

ShiftClock == {AtLocal(n, w) : n \in ShiftDays, w \in ShiftSeconds}

InitClock == InitFrom({Absent}, ShiftClock)

ClockTick == TickIn(ShiftClock)

NextClock == ClockTick \/ SetTab

SpecClock == InitClock /\ [][NextClock]_vars

\* The forms at one instant, each submitted with values that pass its checks
\* and with values that do not.
FormsStored == {Json(Root(<<IngOats>>, <<RecBowl>>, LedgerOne, CustomGoals, 0))}

InitForms == InitFrom(FormsStored, CatalogClock)

\* parsed values of the ingredient form: one that passes, and one without a
\* name, one with a field that is no number, one with a negative field
FormsMilk == Ing(0, "Milk", "100ml", 64, 3, 5, 4, 12)

FormsCreate ==
  IngredientCreate({FormsMilk, [FormsMilk EXCEPT !.kcal = NaN], [FormsMilk EXCEPT !.fat = -1]})

FormsUpdate == IngredientUpdate({FormsMilk, [FormsMilk EXCEPT !.name = " "]})

\* parsed values of the goals form: one that passes, and for every field one
\* that does not
FormsGoals ==
  {FormGoal, [FormGoal EXCEPT !.kcal = 0], [FormGoal EXCEPT !.protein = NaN],
   [FormGoal EXCEPT !.price = -1], [FormGoal EXCEPT !.carbs = NaN],
   [FormGoal EXCEPT !.fat = 0]}

FormsGoalsSubmit == GoalsSubmitOf(FormsGoals)

FormsLogIngredient == LogIngredientOf({1}, FormAmounts, {"lunch"})

FormsLogRecipe == LogRecipeOf({1}, FormAmounts, {"lunch"})

NextForms ==
  \/ FormsGoalsSubmit \/ FormsCreate \/ FormsUpdate
  \/ RecipeEditorOpen \/ RecipeNameInput \/ RecipeAddClick \/ RecipePickerAdd
  \/ RecipeSubmit \/ CloseModal
  \/ FormsLogIngredient \/ FormsLogRecipe

SpecForms == InitForms /\ [][NextForms]_vars

\* The ledger within one day of the clock: entries are logged to the selected
\* day and deleted from it, in documents whose entry ids are unique and in one
\* where they are not, while ingredients are deleted.
InitLedger == InitFrom({Json(FullRoot), Json(TwinRoot)}, BackClock)

LedgerLogIngredient == LogIngredientOf({2}, {2}, FormMeals)

LedgerLogRecipe == LogRecipeOf({1}, {2}, {"snacks"})

NextLedger ==
  \/ BackTick \/ btnPrevDayClick \/ btnNextDayClick
  \/ LedgerLogIngredient \/ LedgerLogRecipe \/ EntryDelete
  \/ IngredientDelete

SpecLedger == InitLedger /\ [][NextLedger]_vars

\* Export and import of the exported file within one day of the clock, while
\* days are selected and entries are logged and deleted.
InitRound == InitFrom({Absent, Json(FullRoot)}, BackClock)

\* the file is exported before it is chosen for an import
RoundExport == ~importPending /\ btnExportClick

NextRound ==
  \/ BackTick \/ btnPrevDayClick \/ btnNextDayClick
  \/ RoundExport \/ ImportStart \/ ImportExported
  \/ NavLog \/ EntryDelete

SpecRound == InitRound /\ [][NextRound]_vars

\* The functions the page computes what it displays with, applied to values
\* of every kind: the page is open on an empty document.
InitPure == InitFrom({Absent}, CatalogClock)

\* a call that changes nothing: the function, its arguments and its result
Call(function, arguments) ==
  /\ lastEvent' = Ev(function, 0, arguments)
  /\ UNCHANGED <<state, persisted, selectedDayKey, todayKeyFromLastRender, now, nextUid,
                 importPending, exported, recipeDraft, editingRecipeId, modal,
                 btnPrevDisabled, btnNextDisabled>>

\* totals and goals: no number, negative, 0, and the values around a half of
\* a percent, around 100 % and around 999 % of the goals
PctValues ==
  {NaN, -250, -1, 0, 1, 3, 12, 13, 37, 38, 1997, 1998, 2500, 24962, 24963, 24975, 25000,
   250000}

PctGoals == {NaN, -2500, 0, 1, 200, 2500}

pctOfGoalCall ==
  \E v \in PctValues, g \in PctGoals :
    Call("pctOfGoal", [value |-> v, goal |-> g, result |-> pctOfGoal(v, g)])

\* prices per 100 g of protein or per 100 kcal, and the day's reference
RatioValues == {NaN, -5, 0, 40, 50, 75, 96, 97, 100, 103, 104, 150, 200, 300}

RatioReferences == {NaN, -100, 0, 100}

ratioColorCall ==
  \E v \in RatioValues, r \in RatioReferences :
    Call("ratioColor", [value |-> v, reference |-> r, result |-> ratioColor(v, r)])

\* the lines of recipes: per 100 g, per piece, and of an ingredient that is
\* in no catalog
PureLines == {Line(101, 80), Line(101, 100), Line(102, 2), Line(199, 50)}

MaxLines == MaxItems + 2

PureItems == UNION {[1..n -> PureLines] : n \in 0..MaxLines}

PureCatalogs == {<<IngOats, IngEgg>>, <<IngEgg>>}

calcRecipeTotalsCall ==
  \E items \in PureItems, ingredients \in PureCatalogs :
    Call("calcRecipeTotals",
         [items |-> items, ingredients |-> ingredients,
          result |-> calcRecipeTotals([id |-> 0, name |-> "", items |-> items,
                                       itemsIsArray |-> TRUE], ingredients)])

\* ingredients of every basis, and amounts: negative, 0, below, at and above 100
PureIngredients == {IngOats, IngEgg, Ing(103, "Milk", "100ml", 64, 3, 5, 4, 12)}

PureAmounts == {-50, 0, 1, 2, 3, 50, 100, 200}

calcIngredientTotalsCall ==
  \E ing \in PureIngredients, amount \in PureAmounts :
    Call("calcIngredientTotals",
         [ing |-> ing, amount |-> amount, result |-> calcIngredientTotals(ing, amount)])

NextPure ==
  pctOfGoalCall \/ ratioColorCall \/ calcRecipeTotalsCall \/ calcIngredientTotalsCall

SpecPure == InitPure /\ [][NextPure]_vars

\* The editors on a document that starts empty: ingredients and recipes are
\* created, changed and deleted, lines are added to the draft and removed.
InitEditor == InitFrom({Absent}, CatalogClock)

\* ids uid() hands out: for an ingredient and a recipe, or two ingredients
EditorUids == MaxUid + 1

EditorCreate == IngredientCreateUpTo({FormsMilk, [FormsMilk EXCEPT !.name = " "]}, EditorUids)

EditorUpdate == IngredientUpdate({[FormsMilk EXCEPT !.kcal = 70]})

EditorSubmit == RecipeSubmitUpTo(EditorUids)

NextEditor ==
  \/ EditorCreate \/ EditorUpdate \/ IngredientDelete
  \/ RecipeEditorOpen \/ RecipeNameInput \/ RecipeAddClick \/ RecipePickerAdd
  \/ RecipeRemoveLine \/ EditorSubmit \/ RecipeDelete \/ CloseModal

SpecEditor == InitEditor /\ [][NextEditor]_vars

(* ------------------------------ properties ----------------------------- *)
\* some line of some saved recipe names ingredient id
Referenced(recipes, id) ==
  \E r \in Range(recipes) : \E line \in Range(r.items) : line.ingredientId = id

\* the events the ingredient delete handler ends with
IngredientDeleteEvents ==
  {"ingredient.deleted", "ingredient.delete.alert", "ingredient.delete.threw",
   "ingredient.delete.return"}

\* the ingredient delete handler has run on an ingredient of the catalog
IngredientDeleteStep(id) ==
  /\ lastEvent'.name \in IngredientDeleteEvents
  /\ lastEvent'.id = id
  /\ SomeId(state.ingredients, id)

\* C1: deleting an ingredient that a line of a saved recipe refers to fails:
\* the ingredient stays, and the ingredients, the recipes, the ledger and the
\* persisted document are as before the attempt.
C1_ReferencedIngredientIsKept ==
  [][\A id \in IdsOf(state.ingredients) :
       (IngredientDeleteStep(id) /\ Referenced(state.recipes, id))
         => /\ lastEvent'.name # "ingredient.deleted"
            /\ SomeId(state'.ingredients, id)
            /\ state' = state
            /\ persisted' = persisted]_vars

\* the delete handler has just refused to delete ingredient 101, which a line
\* of recipe 201 refers to
C1_Witness ==
  /\ lastEvent.name = "ingredient.delete.alert"
  /\ lastEvent.id = 101
  /\ Referenced(state.recipes, 101)
  /\ SomeId(state.ingredients, 101)

\* after the entity was deleted: every stored list is as before, no visible
\* entry refers to the entity, and the totals of every day and meal are those
\* of the entries that did not refer to it
DeletedNotCascaded(type, id) ==
  /\ \A k \in DOMAIN state.dayLogs :
       /\ k \in DOMAIN state'.dayLogs
       /\ state'.dayLogs[k] = state.dayLogs[k]
       /\ \A e \in Range(DayView(state', k).entries) : ~RefersTo(e, type, id)
       /\ DayView(state', k).entries = NotReferring(DayView(state, k).entries, type, id)
       /\ DayView(state', k).totals
            = calcTotalsForEntries(state, NotReferring(DayView(state, k).entries, type, id))
       /\ \A i \in 1..Len(MEALS) :
            /\ MealView(state', k, MEALS[i]).entries
                 = NotReferring(MealView(state, k, MEALS[i]).entries, type, id)
            /\ MealView(state', k, MEALS[i]).totals
                 = calcTotalsForEntries(state,
                     NotReferring(MealView(state, k, MEALS[i]).entries, type, id))

\* the recipe delete handler has run on a recipe of the catalog
RecipeDeleteStep(id) ==
  /\ lastEvent'.name \in {"recipe.deleted", "recipe.delete.return"}
  /\ lastEvent'.id = id
  /\ SomeId(state.recipes, id)

\* C2: deleting an ingredient no recipe refers to, or any recipe, succeeds and
\* is not cascaded: the entries that referred to it stay stored unchanged, are
\* no longer in the visible list of their day, and add nothing to the totals
\* of the day and of its meals.
C2_DeleteIsNotCascaded ==
  [][/\ \A id \in IdsOf(state.ingredients) :
          (IngredientDeleteStep(id) /\ ~Referenced(state.recipes, id))
            => /\ lastEvent'.name = "ingredient.deleted"
               /\ ~SomeId(state'.ingredients, id)
               /\ state'.recipes = state.recipes
               /\ DeletedNotCascaded("ingredient", id)
     /\ \A id \in IdsOf(state.recipes) :
          RecipeDeleteStep(id)
            => /\ lastEvent'.name = "recipe.deleted"
               /\ ~SomeId(state'.recipes, id)
               /\ state'.ingredients = state.ingredients
               /\ DeletedNotCascaded("recipe", id)]_vars

\* some entry of the stored ledger refers to the entity
StoredReference(type, id) ==
  \E k \in DOMAIN state.dayLogs : \E e \in Range(state.dayLogs[k]) : RefersTo(e, type, id)

\* recipe 201 has just been deleted, after ingredient 102: entries that refer
\* to either are still stored
C2_Witness ==
  /\ lastEvent.name = "recipe.deleted"
  /\ lastEvent.id = 201
  /\ ~SomeId(state.recipes, 201)
  /\ StoredReference("recipe", 201)
  /\ ~SomeId(state.ingredients, 102)
  /\ StoredReference("ingredient", 102)

\* the entity an entry's reference selects: the first ingredient with the id
\* for an ingredient entry, the first recipe with the id for any other entry
Resolves(st, e) ==
  IF e.type = "ingredient" THEN \E x \in Range(st.ingredients) : x.id = e.refId
  ELSE \E x \in Range(st.recipes) : x.id = e.refId

\* what a resolving entry adds to the totals, field by field
Contribution(st, e) ==
  IF e.type = "ingredient"
  THEN calcIngredientTotals(st.ingredients[FindIndex(st.ingredients, e.refId)], e.amount)
  ELSE LET r == calcRecipeTotals(st.recipes[FindIndex(st.recipes, e.refId)], st.ingredients)
       IN [f \in GoalFields |-> r[f] * e.amount]

\* the field-wise sum of the contributions of the entries at the positions S
RECURSIVE SumOver(_, _, _)
SumOver(st, log, S) ==
  IF S = {} THEN [f \in GoalFields |-> 0]
  ELSE LET i == CHOOSE j \in S : TRUE
           rest == SumOver(st, log, S \ {i})
       IN [f \in GoalFields |-> rest[f] + Contribution(st, log[i])[f]]

\* the stored entries of day key, none for a key the ledger does not hold
StoredEntries(st, key) == IF key \in DOMAIN st.dayLogs THEN st.dayLogs[key] ELSE << >>

\* the sum over exactly the stored entries of the day that resolve
ResolvingSum(st, key) ==
  SumOver(st, StoredEntries(st, key),
          {i \in 1..Len(StoredEntries(st, key)) : Resolves(st, StoredEntries(st, key)[i])})

\* a day key no ledger of the model holds
UnseenKey == KeyOfDay(FirstDay - 7)

\* C3: for every day key and every catalog, the day totals are the field-wise
\* sum, over exactly the stored entries of the day that resolve in the catalog
\* their type selects, of the ingredient's totals for the amount or of the
\* recipe's totals times the amount; a day without stored entries has totals 0.
C3_DayTotalsAreTheResolvingSum ==
  \A k \in DOMAIN state.dayLogs \cup {UnseenKey} :
    /\ DayView(state, k).totals = ResolvingSum(state, k)
    /\ Len(StoredEntries(state, k)) = 0 => DayView(state, k).totals = ZeroTotals

\* an ingredient has just been changed; a day holds a resolving ingredient
\* entry, a resolving recipe entry taken twice and an entry that does not
\* resolve; another holds no entry
C3_Witness ==
  /\ lastEvent.name = "ingredient.updated"
  /\ \E k \in DOMAIN state.dayLogs :
       /\ \E e \in Range(state.dayLogs[k]) : e.type = "ingredient" /\ Resolves(state, e)
       /\ \E e \in Range(state.dayLogs[k]) :
            e.type = "recipe" /\ Resolves(state, e) /\ e.amount = 2
       /\ \E e \in Range(state.dayLogs[k]) : ~Resolves(state, e)
       /\ DayView(state, k).totals.kcal > 0
  /\ \E k \in DOMAIN state.dayLogs : Len(state.dayLogs[k]) = 0

\* the import handler has finished on the document raw
ImportStep(raw) ==
  /\ importPending /\ ~importPending'
  /\ lastEvent'.name \in {"import.alert", "import.done"}
  /\ lastEvent'.raw = raw

\* the document is not an object, or its ingredients or recipes is not an
\* array, or its dayLogs or goals is not an object
StructurallyBad(raw) ==
  /\ raw.kind = "json"
  /\ \/ ~raw.root.isObject
     \/ ~raw.root.ingredients.isArray
     \/ ~raw.root.recipes.isArray
     \/ ~raw.root.dayLogs.isObject
     \/ ~raw.root.goals.isObject

\* C4: an import of a document that is not an object, or whose ingredients or
\* recipes is not an array, or whose dayLogs or goals is not an object, is
\* rejected, and the State Document and the persisted document stay as they were.
C4_BadImportIsRejected ==
  [][\A raw \in Documents :
       (ImportStep(raw) /\ StructurallyBad(raw))
         => /\ lastEvent'.name = "import.alert"
            /\ state' = state
            /\ persisted' = persisted]_vars

\* an import of a document whose goals is not an object has just been
\* rejected, its ingredients are not in the State Document
C4_Witness ==
  /\ lastEvent.name = "import.alert"
  /\ lastEvent.raw = Json([FullRoot EXCEPT !.goals.isObject = FALSE])
  /\ state.ingredients = << >>
  /\ persisted = Absent

\* the document passes the five structural checks
StructurallyValid(raw) == raw.kind = "json" /\ ~StructurallyBad(raw)

\* the goals an import is to end with: the default for every field that is
\* missing or not finite, the document's value for every other field
ClaimedGoals(g) ==
  [kcal |-> IF g.kcal = NaN THEN 2500 ELSE g.kcal,
   protein |-> IF g.protein = NaN THEN 160 ELSE g.protein,
   price |-> IF g.price = NaN THEN 15 ELSE g.price,
   carbs |-> IF g.carbs = NaN THEN 300 ELSE g.carbs,
   fat |-> IF g.fat = NaN THEN 80 ELSE g.fat]

\* the imported document with those goals
ClaimedImport(raw) ==
  [ingredients |-> raw.root.ingredients.val, recipes |-> raw.root.recipes.val,
   dayLogs |-> raw.root.dayLogs.val, goals |-> ClaimedGoals(raw.root.goals.val),
   schemaVersion |-> raw.root.schemaVersion]

\* C5: after the import of a structurally valid document the State Document is
\* the imported document, with the default in place of every goal that is
\* missing or not finite and every finite goal kept, and the persisted
\* document is that same document.
C5_StateIsTheImportedDocument ==
  [][\A raw \in Documents :
       (ImportStep(raw) /\ StructurallyValid(raw))
         => /\ state' = ClaimedImport(raw)
            /\ persisted' = Serialize(state')]_vars

\* C5, the part about the goals: after the import of a structurally valid
\* document the goals in memory and the persisted goals are the document's
\* goals with the defaults filled in, and the catalogs are the document's.
C5_GoalsAreFilled ==
  [][\A raw \in Documents :
       (ImportStep(raw) /\ StructurallyValid(raw))
         => /\ state'.goals = ClaimedGoals(raw.root.goals.val)
            /\ persisted'.root.goals.val = ClaimedGoals(raw.root.goals.val)
            /\ state'.ingredients = raw.root.ingredients.val
            /\ state'.recipes = raw.root.recipes.val]_vars

\* C6, as claimed: in every reachable state each of the five goal fields is a
\* finite number greater than 0.
C6_GoalsArePositive ==
  \A f \in GoalFields : state.goals[f] # NaN /\ state.goals[f] > 0

\* the goals startup load is to end with, for the stored document raw
LoadedGoals(raw) ==
  IF raw.kind = "json" /\ raw.root.isObject /\ raw.root.goals.isObject
  THEN ClaimedGoals(raw.root.goals.val)
  ELSE ClaimedGoals([f \in GoalFields |-> NaN])

\* what the three operations do to the goals
GoalsStep ==
  /\ lastEvent'.name = "goals.saved" => \A f \in GoalFields : state'.goals[f] > 0
  /\ lastEvent'.name = "goals.alert" => state'.goals = state.goals
  /\ \A raw \in Documents :
       (ImportStep(raw) /\ StructurallyValid(raw))
         => state'.goals = ClaimedGoals(raw.root.goals.val)
  /\ lastEvent'.name \notin {"goals.saved", "import.alert", "import.done"}
       => state'.goals = state.goals

\* C6, amended: in every reachable state each of the five goal fields is a
\* finite number; set-goals stores only values greater than 0; startup load
\* and import put the fixed default in place of every field that is missing
\* or not finite and keep every finite value, also one that is not greater
\* than 0.
C6_GoalsAreFinite ==
  /\ [](\A f \in GoalFields : state.goals[f] # NaN)
  /\ [](lastEvent.name = "load" => state.goals = LoadedGoals(persisted))
  /\ [][GoalsStep]_vars

\* an import has just kept a price goal of 0 and put the default in no field
C6_Witness ==
  /\ lastEvent.name = "import.done"
  /\ lastEvent.raw.root.goals.val.price = 0
  /\ state.goals.price = 0
  /\ state.goals.kcal = 2000

\* the events a mutating user action ends with when it is completed
MutatingEvents ==
  {"ingredient.created", "ingredient.updated", "ingredient.deleted", "recipe.created",
   "recipe.updated", "recipe.deleted", "entry.logged", "entry.deleted", "goals.saved",
   "import.done"}

\* C7: after every completed mutating user action the persisted document is
\* the serialization of the State Document.
C7_WriteThrough ==
  lastEvent.name \in MutatingEvents => persisted = Serialize(state)

\* C8: with a clock that never goes backwards, the selected day key is never
\* later than the current day key: no previous-day, next-day, import, logging
\* or rendering action selects a day in the future.
C8_NoFutureDaySelected == selectedDayKey <= nowDayKeyRollover0430(now)

\* the next-day handler has just moved the selection onto the current day,
\* and rendering threw before the date bar disabled the next-day button
C8_Witness ==
  /\ lastEvent.name = "nextDay"
  /\ selectedDayKey = nowDayKeyRollover0430(now)
  /\ ~btnNextDisabled

\* the days of the ledger that hold at least one entry
DaysWithEntries(dayLogs) == {k \in DOMAIN dayLogs : dayLogs[k] # << >>}

\* the previous-day handler has run
PrevDayStep == lastEvent'.name \in {"prevDay", "prevDay.return"}

\* C9: a previous-day action never moves the selection to a key earlier than
\* the oldest day of the ledger that holds an entry, and leaves the selection
\* as it is when no day holds an entry; days with an empty list are no boundary.
C9_PrevDayStopsAtOldestEntry ==
  [][PrevDayStep =>
       /\ DaysWithEntries(state.dayLogs) = {} => selectedDayKey' = selectedDayKey
       /\ selectedDayKey' # selectedDayKey
            => \A k \in DaysWithEntries(state.dayLogs) :
                 (\A j \in DaysWithEntries(state.dayLogs) : k <= j) => k <= selectedDayKey']_vars

\* the previous-day handler has just reached the oldest day that holds an
\* entry, while the ledger holds an older day with an empty list
C9_Witness ==
  /\ lastEvent.name = "prevDay"
  /\ selectedDayKey \in DaysWithEntries(state.dayLogs)
  /\ \A j \in DaysWithEntries(state.dayLogs) : selectedDayKey <= j
  /\ \E k \in DOMAIN state.dayLogs : k < selectedDayKey /\ state.dayLogs[k] = << >>

\* the local time of day of instant t, in seconds
WallSecond(t) == LocalSeconds(t) % SecondsPerDay

\* the key the rollover rule gives: the previous calendar day's from 00:00:00
\* to 04:29:59, the day's own from 04:30:00 on
ClaimedDayKey(t) ==
  IF WallSecond(t) < 4 * 3600 + 30 * 60
  THEN dayKeyFromDate(AtLocal(LocalDay(t) - 1, 12 * 3600))
  ELSE dayKeyFromDate(AtLocal(LocalDay(t), 12 * 3600))

\* C10: the current day key is the previous calendar day's key at every local
\* time from 00:00:00 to 04:29:59 and the day's own key from 04:30:00 on; a
\* render notes it as today's key.
C10_RolloverAtHalfPastFour ==
  /\ nowDayKeyRollover0430(now) = ClaimedDayKey(now)
  /\ lastEvent.name \in {"load", "setTab"} => todayKeyFromLastRender = ClaimedDayKey(now)

(* C11 *)
\* a value that is no number, or a number below the least one the form takes
NotANumberOrBelow(v, least) == ~IsFinite(v) \/ v < least

\* the values a submission was made with do not pass the claim's validation:
\* an amount or factor that is no number or not greater than 0; an ingredient
\* with an empty name or a nutrition or price field that is no number or is
\* negative; a recipe with an empty name or without lines; a goal that is no
\* number or not greater than 0
FailsValidation(ev) ==
  \/ /\ ev.name \in {"log.alert", "entry.logged", "recipe.line.alert", "recipe.line.added"}
     /\ (~IsFinite(ev.raw.amount) \/ ev.raw.amount <= 0)
  \/ /\ ev.name \in {"ingredient.alert", "ingredient.created", "ingredient.update.return",
                      "ingredient.updated"}
     /\ \/ Trim(ev.raw.name) = ""
        \/ \E f \in {"kcal", "protein", "carbs", "fat", "price"} :
             NotANumberOrBelow(ev.raw[f], 0)
  \/ /\ ev.name \in {"recipe.alert", "recipe.updated", "recipe.created"}
     /\ (Trim(ev.raw.name) = "" \/ Len(ev.raw.items) = 0)
  \/ /\ ev.name \in {"goals.alert", "goals.saved"}
     /\ \E f \in GoalFields : ~IsFinite(ev.raw[f]) \/ ev.raw[f] <= 0

\* C11: a submission that fails validation changes neither the state document
\* nor the persisted document: this holds of logging an ingredient amount or a
\* recipe factor, of saving an ingredient, of saving a recipe, of adding a
\* recipe line and of setting the goals.
C11_FailedSubmissionMutatesNothing ==
  [][FailsValidation(lastEvent') => state' = state /\ persisted' = persisted]_vars

\* an amount of 0 was refused after the goals had been set, and the
\* persisted document is the state document
C11_Witness ==
  /\ lastEvent.name = "log.alert"
  /\ lastEvent.raw.amount = 0
  /\ state.goals = FormGoal
  /\ persisted = Serialize(state)

(* C12 *)
\* the list stored for day key, empty when none is stored
StoredList(dayLogs, key) == IF key \in DOMAIN dayLogs THEN dayLogs[key] ELSE << >>

\* the positions of seq that hold an entry with this id
PositionsOf(seq, id) == {i \in 1..Len(seq) : seq[i].id = id}

\* seq without the first of its entries with this id
WithoutFirst(seq, id) ==
  IF PositionsOf(seq, id) = {} THEN seq
  ELSE LET first == CHOOSE i \in PositionsOf(seq, id) : \A j \in PositionsOf(seq, id) : i <= j
       IN SubSeq(seq, 1, first - 1) \o SubSeq(seq, first + 1, Len(seq))

\* a step of the entry delete handler
EntryDeleteStep(id) == lastEvent'.name = "entry.deleted" /\ lastEvent'.id = id

\* what every removal leaves alone: the lists of the other days, the catalogs
\* and the goals
RemovalFrame ==
  /\ \A k \in (DOMAIN state.dayLogs \cup DOMAIN state'.dayLogs) \ {selectedDayKey} :
       StoredList(state'.dayLogs, k) = StoredList(state.dayLogs, k)
  /\ state'.ingredients = state.ingredients
  /\ state'.recipes = state.recipes
  /\ state'.goals = state.goals

\* C12: removing an entry by id from the selected day removes the first entry
\* of that day with that id and nothing else: the other entries of the day keep
\* their order, the lists of the other days, the catalogs and the goals are
\* unchanged.
C12_RemovesFirstMatchOnly ==
  [][\A id \in IdsOf(StoredList(state.dayLogs, selectedDayKey)) :
       EntryDeleteStep(id) =>
         /\ StoredList(state'.dayLogs, selectedDayKey)
              = WithoutFirst(StoredList(state.dayLogs, selectedDayKey), id)
         /\ RemovalFrame]_vars

\* no two entries of one day have the same id
UniqueEntryIds(dayLogs) ==
  \A k \in DOMAIN dayLogs : \A i, j \in 1..Len(dayLogs[k]) :
    dayLogs[k][i].id = dayLogs[k][j].id => i = j

\* C12, of days whose entries have ids of their own: the removal takes out the
\* one entry with the id and nothing else.
C12_RemovesTheEntryOfUniqueId ==
  [][\A id \in IdsOf(StoredList(state.dayLogs, selectedDayKey)) :
       EntryDeleteStep(id) /\ UniqueEntryIds(state.dayLogs) =>
         /\ StoredList(state'.dayLogs, selectedDayKey)
              = WithoutFirst(StoredList(state.dayLogs, selectedDayKey), id)
         /\ RemovalFrame]_vars

(* C13 *)
\* a step of a log handler that stored an entry
LogStep == lastEvent'.name = "entry.logged"

\* the entry the step stored: the last one of the day that was selected
LoggedEntry == LET list == StoredList(state'.dayLogs, selectedDayKey) IN list[Len(list)]

\* the entries of state' that have the id of an entry the same day held in
\* state are entries that day held in state
EntriesKept ==
  \A k \in DOMAIN state.dayLogs \cap DOMAIN state'.dayLogs :
    \A e \in Range(state'.dayLogs[k]) :
      e.id \in IdsOf(state.dayLogs[k]) => e \in Range(state.dayLogs[k])

\* C13: logging an entry appends it at the end of the selected day's list and
\* leaves the entries already stored for that day and for every other day
\* unchanged and in their order; no step changes the id, type, refId, amount or
\* meal of a stored entry.
C13_LogAppendsAndEntriesAreImmutable ==
  [][/\ LogStep =>
          /\ Len(StoredList(state'.dayLogs, selectedDayKey))
               = Len(StoredList(state.dayLogs, selectedDayKey)) + 1
          /\ SubSeq(StoredList(state'.dayLogs, selectedDayKey), 1,
                    Len(StoredList(state.dayLogs, selectedDayKey)))
               = StoredList(state.dayLogs, selectedDayKey)
          /\ LoggedEntry.id = lastEvent'.id
          /\ LoggedEntry.amount = lastEvent'.raw.amount
          /\ LoggedEntry.type \in {"ingredient", "recipe"}
          /\ LoggedEntry.meal \in Range(MEALS)
          /\ \A k \in (DOMAIN state.dayLogs \cup DOMAIN state'.dayLogs) \ {selectedDayKey} :
               StoredList(state'.dayLogs, k) = StoredList(state.dayLogs, k)
     /\ EntriesKept]_vars

\* an entry was logged to a day before today that held entries, after an
\* ingredient had been deleted
C13_Witness ==
  /\ lastEvent.name = "entry.logged"
  /\ \E k \in DOMAIN state.dayLogs :
       /\ k < todayKeyFromLastRender
       /\ Len(state.dayLogs[k]) > 1
       /\ state.dayLogs[k][Len(state.dayLogs[k])].id = lastEvent.id
  /\ Len(state.ingredients) = 1

(* C14 *)
\* the import handler has been given the exported file
ImportOfExportStep ==
  /\ exported # Absent
  /\ lastEvent'.name \in {"import.done", "import.alert"}
  /\ lastEvent'.raw = exported

\* the document st has the contents of the file: ingredients, recipes, day
\* keys, the entries of every day, and goals
SameContents(st, file) ==
  /\ st.ingredients = file.root.ingredients.val
  /\ st.recipes = file.root.recipes.val
  /\ DOMAIN st.dayLogs = DOMAIN file.root.dayLogs.val
  /\ \A k \in DOMAIN st.dayLogs \cap DOMAIN file.root.dayLogs.val :
       st.dayLogs[k] = file.root.dayLogs.val[k]
  /\ st.goals = file.root.goals.val

\* C14: export followed by import of the exported document is a round trip:
\* the file has the contents of the state document it was exported from, and
\* the state document after the import has the contents of the file: the same
\* ingredients and recipes in order, the same day keys with the same entries in
\* order, the same goals.
C14_ExportImportRoundTrip ==
  [][/\ lastEvent'.name = "export" => SameContents(state, exported')
     /\ ImportOfExportStep => SameContents(state', exported)]_vars

\* C14 without the day keys: after the import of the exported file the
\* ingredients, the recipes and the goals are those of the file, and every day
\* of the file has the entries of the file.
C14_ContentsSurviveRoundTrip ==
  [][/\ lastEvent'.name = "export" => SameContents(state, exported')
     /\ ImportOfExportStep =>
          /\ state'.ingredients = exported.root.ingredients.val
          /\ state'.recipes = exported.root.recipes.val
          /\ state'.goals = exported.root.goals.val
          /\ \A k \in DOMAIN exported.root.dayLogs.val :
               k \in DOMAIN state'.dayLogs /\ state'.dayLogs[k] = exported.root.dayLogs.val[k]
          /\ \A k \in DOMAIN state'.dayLogs \ DOMAIN exported.root.dayLogs.val :
               state'.dayLogs[k] = << >>]_vars

(* C15 *)
\* the document the claim has the startup load return for what is stored
ClaimedLoad(stored) ==
  IF stored.kind # "json"
  THEN [ingredients |-> << >>, recipes |-> << >>, dayLogs |-> EmptyDayLogs,
        goals |-> [kcal |-> 2500, protein |-> 160, price |-> 15, carbs |-> 300, fat |-> 80]]
  ELSE [ingredients |-> IF stored.root.isObject /\ stored.root.ingredients.isArray
                        THEN stored.root.ingredients.val ELSE << >>,
        recipes |-> IF stored.root.isObject /\ stored.root.recipes.isArray
                    THEN stored.root.recipes.val ELSE << >>,
        dayLogs |-> IF stored.root.isObject /\ stored.root.dayLogs.isObject
                    THEN stored.root.dayLogs.val ELSE EmptyDayLogs,
        goals |-> IF stored.root.isObject /\ stored.root.goals.isObject
                  THEN ClaimedGoals(stored.root.goals.val)
                  ELSE [kcal |-> 2500, protein |-> 160, price |-> 15, carbs |-> 300,
                        fat |-> 80]]

\* document st has the catalogs, the entries and the goals of document claimed
SameDocument(st, claimed) ==
  /\ st.ingredients = claimed.ingredients
  /\ st.recipes = claimed.recipes
  /\ st.goals = claimed.goals
  /\ \A k \in DOMAIN st.dayLogs \cup DOMAIN claimed.dayLogs :
       StoredList(st.dayLogs, k) = StoredList(claimed.dayLogs, k)

\* C15: the startup load never fails: of an absent or unparseable persisted
\* document it makes the empty document with the default goals, and of one
\* whose ingredients or recipes are no arrays, or whose dayLogs or goals are no
\* objects, it makes the document with those parts replaced by empty
\* collections or the default goals; the page starts with that document.
C15_LoadNeverFails ==
  lastEvent.name = "load" =>
    /\ SameDocument(loadState(persisted), ClaimedLoad(persisted))
    /\ DOMAIN loadState(persisted).dayLogs = DOMAIN ClaimedLoad(persisted).dayLogs
    /\ SameDocument(state, ClaimedLoad(persisted))

\* the page has started on a document whose recipes are no array and has kept
\* its ingredients and its entries
C15_Witness ==
  /\ lastEvent.name = "load"
  /\ persisted = Json([FullRoot EXCEPT !.recipes.isArray = FALSE])
  /\ state.recipes = << >>
  /\ Len(state.ingredients) = 2
  /\ state.dayLogs[KeyOfDay(FirstDay - 1)] # << >>

NeutralCase(v, r) ==
  \/ ~IsFinite(v) \/ ~IsFinite(r) \/ r <= 0
  \/ 100 * v >= 97 * r /\ 100 * v <= 103 * r

\* C19: ratioColor returns one and the same colour value, the base colour it
\* returns for a value equal to its reference, when value or reference is not
\* finite, when reference is not greater than 0, and when value / reference
\* differs from 1 by at most 0.03.
C19_NeutralColorIsOne ==
  lastEvent.name = "ratioColor" /\ NeutralCase(lastEvent.raw.value, lastEvent.raw.reference)
    => lastEvent.raw.result = ratioColor(100, 100)

\* C19, of the three colour channels alone: in the cases of the claim red,
\* green and blue are those of the base colour.
C19_NeutralChannels ==
  lastEvent.name = "ratioColor" /\ NeutralCase(lastEvent.raw.value, lastEvent.raw.reference)
    => /\ lastEvent.raw.result[2] = 242
       /\ lastEvent.raw.result[3] = 244
       /\ lastEvent.raw.result[4] = 248

(* C16 *)
\* the positions of the lines whose ingredient is in the catalog
PresentLines(items, ingredients) ==
  {i \in 1..Len(items) : \E x \in Range(ingredients) : x.id = items[i].ingredientId}

\* the field-wise sum of normalize(ingredient, amount) over the lines at the
\* positions S, in no order
RECURSIVE LineSum(_, _, _)
LineSum(items, ingredients, S) ==
  IF S = {} THEN [f \in GoalFields |-> 0]
  ELSE LET i == CHOOSE j \in S : TRUE
           rest == LineSum(items, ingredients, S \ {i})
           line == calcIngredientTotals(
                     ingredients[FindIndex(ingredients, items[i].ingredientId)],
                     items[i].amount)
       IN [f \in GoalFields |-> rest[f] + line[f]]

\* the orders the n lines of a recipe can be stored in
LineOrders(n) == {p \in [1..n -> 1..n] : \A i, j \in 1..n : p[i] = p[j] => i = j}

NutritionFields == {"kcal", "protein", "carbs", "fat", "price"}

\* C17: normalize(ingredient, amount) multiplies each of the five stored
\* fields by amount / 100 when the basis is per 100 g or per 100 ml and by
\* amount when it is per piece; for the first two bases normalize(ing, 100) is
\* the stored fields, and per piece normalize(ing, 2n) is twice
\* normalize(ing, n).  Totals are in hundredths.
C17_NormalizeScalesByBasis ==
  lastEvent.name = "calcIngredientTotals" =>
    LET ing == lastEvent.raw.ing
        amount == lastEvent.raw.amount
        result == lastEvent.raw.result
    IN \A f \in NutritionFields :
         /\ ing.unitType \in {"100g", "100ml"} =>
              /\ 100 * result[f] = ing[f] * amount * 100
              /\ amount = 100 => result[f] = ing[f] * 100
         /\ ing.unitType = "piece" =>
              /\ result[f] = ing[f] * amount * 100
              /\ calcIngredientTotals(ing, 2 * amount)[f] = 2 * result[f]

\* 100 ml of an ingredient per 100 ml has been normalized to its stored fields
C17_Witness ==
  /\ lastEvent.name = "calcIngredientTotals"
  /\ lastEvent.raw.ing.unitType = "100ml"
  /\ lastEvent.raw.amount = 100
  /\ lastEvent.raw.result.kcal = 64 * 100

(* C20 *)
\* the four meal blocks of day key
MealViews(st, key) == [m \in Range(MEALS) |-> MealView(st, key, m)]

\* the meals whose block in views lists entry e
MealsListing(views, e) ==
  {m \in DOMAIN views : \E j \in 1..Len(views[m].entries) : views[m].entries[j] = e}

DayOfKey(key) == DaysFromCivil(key \div 10000, (key \div 100) % 100, key % 100)

\* the number of calendar days between the days of two keys
DaysApart(a, b) ==
  IF DayOfKey(a) < DayOfKey(b) THEN DayOfKey(b) - DayOfKey(a) ELSE DayOfKey(a) - DayOfKey(b)

\* the previous-day or the next-day handler has run
DayButtonStep ==
  lastEvent'.name \in {"prevDay", "prevDay.return", "nextDay", "nextDay.return"}

\* C21: a next-day or previous-day action changes the selected day key by
\* exactly one calendar day or leaves it unchanged, also when the clock has
\* crossed the 04:30 rollover since the last render: after the action the
\* selected day is never two or more days away from the day selected before.
C21_DayButtonMovesOneDay ==
  [][DayButtonStep => DaysApart(selectedDayKey, selectedDayKey') <= 1]_vars

\* C21, of actions taken while today's key is the one the last render noted:
\* the previous-day button selects the day before or none, the next-day button
\* the day after or none.
C21_OneDayWithoutRollover ==
  [][DayButtonStep /\ todayKeyFromLastRender = nowDayKeyRollover0430(now) =>
       /\ lastEvent'.name = "prevDay" => DayOfKey(selectedDayKey') = DayOfKey(selectedDayKey) - 1
       /\ lastEvent'.name = "nextDay" => DayOfKey(selectedDayKey') = DayOfKey(selectedDayKey) + 1
       /\ lastEvent'.name \in {"prevDay.return", "nextDay.return"}
            => selectedDayKey' = selectedDayKey]_vars

(* C22 *)
\* the day view shows the current day: the selected day is the one the last
\* render noted as today
ShowsCurrentDay == selectedDayKey = todayKeyFromLastRender

\* the entry the log handler has just stored is in the list of day key
LoggedUnder(key) == lastEvent'.id \in IdsOf(StoredList(state'.dayLogs, key))

\* C22: an entry logged while the day view shows the current day is stored
\* under the current day key of the moment of logging, also when the clock has
\* crossed the 04:30 rollover between the last render and the logging.
C22_LoggedUnderCurrentDay ==
  [][LogStep /\ ShowsCurrentDay => LoggedUnder(nowDayKeyRollover0430(now))]_vars

\* C22, as the handlers have it: the entry is stored under the day that was
\* selected, which is the current day when no rollover has passed since the
\* last render.
C22_LoggedUnderSelectedDay ==
  [][LogStep =>
       /\ LoggedUnder(selectedDayKey)
       /\ ShowsCurrentDay /\ todayKeyFromLastRender = nowDayKeyRollover0430(now)
            => LoggedUnder(nowDayKeyRollover0430(now))]_vars

(* C23 *)
\* the step's handler has called renderAll: every completed mutating action,
\* a tab button, a day button that did not return early, and an import that
\* failed after its structural checks
RenderStep ==
  \/ lastEvent'.name \in MutatingEvents \cup {"setTab", "prevDay", "nextDay"}
  \/ lastEvent'.name = "import.alert" /\ ImportAccepts(lastEvent'.raw)

\* the selected day key renderAll is entered with: the handler's assignment
\* to selectedDayKey, if it makes one before the call
SelectionOnEntry ==
  IF lastEvent'.name = "prevDay" THEN PrevDayKey(selectedDayKey)
  ELSE IF lastEvent'.name = "nextDay" THEN NextDayKey(selectedDayKey)
  ELSE IF lastEvent'.name \in {"import.done", "import.alert"}
  THEN ImportSelection(selectedDayKey, nowDayKeyRollover0430(now))
  ELSE selectedDayKey

\* C23: rollover synchronisation: if at the previous render the selected day
\* key was the current day key and the current day key has changed since, the
\* next render sets the selected day key to the new current day key; if at the
\* previous render the selected day was a past day, a render never changes the
\* selected day key.
C23_RolloverSync ==
  [][RenderStep =>
       /\ ( /\ ShowsCurrentDay
            /\ nowDayKeyRollover0430(now) # todayKeyFromLastRender
            /\ SelectionOnEntry = selectedDayKey )
            => selectedDayKey' = nowDayKeyRollover0430(now)
       /\ selectedDayKey < todayKeyFromLastRender => selectedDayKey' = SelectionOnEntry]_vars

\* C23, of the renders of handlers that do not assign the selected day key
\* themselves: the selection that was the current day follows the rollover and
\* a selection that was a past day stays.
C23_SyncOfUnmovedSelection ==
  [][RenderStep /\ lastEvent'.name \notin {"prevDay", "nextDay"} =>
       /\ ShowsCurrentDay /\ nowDayKeyRollover0430(now) # todayKeyFromLastRender
            => selectedDayKey' = nowDayKeyRollover0430(now)
       /\ selectedDayKey < todayKeyFromLastRender => selectedDayKey' = selectedDayKey]_vars

(* C24 *)
\* the import handler has ended with its failure notice
ImportFailureStep == importPending /\ lastEvent'.name = "import.alert"

\* C24: no import both reports failure and changes state: whenever the import
\* failure notice is shown, the State Document and the persisted document are
\* what they were before the import, also when the document passes the
\* structural checks and a later step of the import fails.
C24_FailedImportChangesNothing ==
  [][ImportFailureStep => state' = state /\ persisted' = persisted]_vars

\* C24, of the documents the structural checks reject, and of the others: a
\* document JSON.parse or a structural check throws on changes nothing; a
\* document that passes them is assigned and persisted whether or not the
\* import then reports failure.
C24_RejectedOrReplaced ==
  [][ImportFailureStep =>
       IF ImportAccepts(lastEvent'.raw)
       THEN /\ renderThrows(ImportedState(lastEvent'.raw))
            /\ persisted' = Serialize(ImportedState(lastEvent'.raw))
            /\ state'.recipes = lastEvent'.raw.root.recipes.val
       ELSE state' = state /\ persisted' = persisted]_vars

(* C25 *)
\* C25: the State Document is never a mixture: when the pending read of an
\* import resumes and validation succeeds, the document becomes exactly the
\* imported document, with nothing of the earlier document or of the
\* mutations made while the read was pending; when validation fails the
\* document, those mutations included, is left untouched.
C25_ImportIsAtomic ==
  [][\A raw \in NavDocuments :
       ImportStep(raw) =>
         IF ImportAccepts(raw) THEN state' = ImportedState(raw) ELSE state' = state]_vars

\* C25, but for the days the ledger lists without an entry: after a
\* successful validation the catalogs, the goals and the entries of every day
\* are the imported document's, and the one key the ledger may hold beyond the
\* document's is the selected day's, with an empty list.
C25_NoMixtureOfContents ==
  [][\A raw \in NavDocuments :
       ImportStep(raw) =>
         IF ImportAccepts(raw)
         THEN /\ SameDocument(state', ImportedState(raw))
              /\ state'.schemaVersion = raw.root.schemaVersion
              /\ DOMAIN state'.dayLogs \ DOMAIN raw.root.dayLogs.val \subseteq {selectedDayKey'}
         ELSE state' = state]_vars

\* an import has replaced the document after an entry had been logged: the
\* entry is gone
C25_EntryLoggedBeforeResume ==
  /\ lastEvent.name = "import.done"
  /\ nextUid > 1
  /\ \A k \in DOMAIN state.dayLogs : uid(1) \notin IdsOf(state.dayLogs[k])

(* C26 *)
\* a step that only views a day: a tab button's render, or a day button's
\* render of the day it selects
ViewStep == lastEvent'.name \in {"setTab", "prevDay", "nextDay"}

\* C26: viewing or aggregating a day is read-only: computing the visible
\* entries or the totals of any day key, also of one the ledger has never
\* seen, leaves the State Document unchanged, in particular the set of day
\* keys of the Day Ledger.
C26_ViewingIsReadOnly ==
  [][ViewStep => state' = state /\ DOMAIN state'.dayLogs = DOMAIN state.dayLogs]_vars

\* C26, but for the key of the day viewed: viewing leaves the catalogs, the
\* goals, the list of every day and the persisted document unchanged, and
\* the one key it may add to the ledger is the viewed day's, with an empty list.
C26_ViewingAddsAnEmptyDayAtMost ==
  [][ViewStep =>
       /\ SameDocument(state', state)
       /\ DOMAIN state.dayLogs \subseteq DOMAIN state'.dayLogs
       /\ DOMAIN state'.dayLogs \ DOMAIN state.dayLogs \subseteq {selectedDayKey'}
       /\ persisted' = persisted]_vars

(* C27 *)
\* the oldest stored day that holds an entry, 0 for none
OldestDay == getOldestStoredDayKeyOrNull(state.dayLogs)

\* the day that is selected after a click on a day button that selects key
AfterClickOn(key) ==
  renderAll(state, key, todayKeyFromLastRender, <<btnPrevDisabled, btnNextDisabled>>,
            now).selectedDayKey

\* a click on "previous day" selects the day before, which is not before the
\* oldest day
PrevDayMoves ==
  /\ ~btnPrevDisabled
  /\ ~PrevDayRefused(state.dayLogs, selectedDayKey)
  /\ AfterClickOn(PrevDayKey(selectedDayKey)) = PrevDayKey(selectedDayKey)
  /\ OldestDay <= PrevDayKey(selectedDayKey)

\* a click on "next day" selects a later day, which is not after the current day
NextDayMoves ==
  /\ ~btnNextDisabled
  /\ ~NextDayRefused(selectedDayKey, nowDayKeyRollover0430(now))
  /\ AfterClickOn(NextDayKey(selectedDayKey)) > selectedDayKey
  /\ AfterClickOn(NextDayKey(selectedDayKey)) <= nowDayKeyRollover0430(now)

\* C27: navigation reaches both bounds.  Repeating "previous day" from a
\* selected day after the oldest stored day that holds an entry ends on that
\* day, through the days without entries between; repeating "next day" from
\* any selected day ends on the current day.  As the days between the bounds
\* are finitely many, this is: wherever the selected day is after the oldest
\* day, a click on "previous day" selects the day before; wherever it is
\* before the current day, a click on "next day" selects a later day up to the
\* current one.
C27_NavigationReachesBothBounds ==
  /\ (OldestDay # 0 /\ OldestDay < selectedDayKey) => PrevDayMoves
  /\ selectedDayKey < nowDayKeyRollover0430(now) => NextDayMoves

\* the date bar is that of a render that has finished at the current day:
\* no recipe makes the render throw, and no rollover has passed since
DateBarIsCurrent ==
  ~renderThrows(state) /\ todayKeyFromLastRender = nowDayKeyRollover0430(now)

\* C27, backwards, and forwards while the date bar is current: repeating
\* "previous day" ends on the oldest day that holds an entry whenever no recipe
\* makes the render throw, and repeating "next day" ends on the current day
\* when, in addition, no rollover has passed since the last render.
C27_BoundsReachedAfterRender ==
  /\ (~renderThrows(state) /\ OldestDay # 0 /\ OldestDay < selectedDayKey) => PrevDayMoves
  /\ (DateBarIsCurrent /\ selectedDayKey < nowDayKeyRollover0430(now)) => NextDayMoves

(* C28 *)
\* C28: starting from an empty State Document and using only the editors
\* (create, update and delete of ingredients and recipes), every saved recipe
\* has at least one line, every line has an amount greater than 0, and every
\* line's ingredientId is the id of an ingredient of the catalog.
C28_SavedRecipesAreWellFormed ==
  \A r \in Range(state.recipes) :
    /\ Len(r.items) >= 1
    /\ \A line \in Range(r.items) :
         /\ IsFinite(line.amount) /\ line.amount > 0
         /\ \E ing \in Range(state.ingredients) : ing.id = line.ingredientId

\* the delete of the ingredient a saved recipe's line names has just been
\* refused, after the recipe had been saved from the editor
C28_Witness ==
  /\ lastEvent.name = "ingredient.delete.alert"
  /\ Len(state.recipes) = 1
  /\ state.recipes[1].items[1].ingredientId = lastEvent.id
  /\ SomeId(state.ingredients, lastEvent.id)
  /\ persisted = Serialize(state)

(* C29 *)
\* the ingredient form's submit handler has updated the ingredient with this id
IngredientUpdateStep(id) == lastEvent'.name = "ingredient.updated" /\ lastEvent'.id = id

\* the catalog the claim has the update end with: at the position of the first
\* ingredient with the id, the id and the submitted fields; every other
\* ingredient as it was
ClaimedCatalog(ingredients, id, f) ==
  [i \in 1..Len(ingredients) |->
     IF i = FindIndex(ingredients, id)
     THEN [id |-> id, name |-> Trim(f.name), brand |-> f.brand, unitType |-> f.unitType,
           kcal |-> f.kcal, protein |-> f.protein, carbs |-> f.carbs, fat |-> f.fat,
           price |-> f.price]
     ELSE ingredients[i]]

\* C29: updating an ingredient keeps its id and its position in the catalog
\* and leaves every other ingredient, every recipe and every stored entry of
\* the ledger unchanged; the totals of every recipe and of every day, past or
\* current, are from then on computed from the updated fields.
C29_UpdateKeepsIdAndPosition ==
  [][lastEvent'.name = "ingredient.updated" =>
     \A id \in IdsOf(state.ingredients) :
       IngredientUpdateStep(id) =>
         LET claimed == [state EXCEPT
                           !.ingredients = ClaimedCatalog(@, id, lastEvent'.raw)]
         IN /\ state'.ingredients = claimed.ingredients
            /\ state'.recipes = state.recipes
            /\ state'.goals = state.goals
            /\ \A k \in DOMAIN state.dayLogs \cup DOMAIN state'.dayLogs :
                 StoredList(state'.dayLogs, k) = StoredList(state.dayLogs, k)
            /\ \A j \in 1..Len(state'.recipes) :
                 calcRecipeTotals(state'.recipes[j], state'.ingredients)
                   = LineSum(state.recipes[j].items, claimed.ingredients,
                             PresentLines(state.recipes[j].items, claimed.ingredients))
            /\ \A k \in DOMAIN state'.dayLogs :
                 DayView(state', k).totals = ResolvingSum(claimed, k)]_vars

\* the first ingredient has just been updated: it is still the first, with
\* its id; the recipe that holds a line of it and a past day that holds an
\* entry of it have the totals of the new fields
C29_Witness ==
  /\ lastEvent.name = "ingredient.updated"
  /\ lastEvent.id = 101
  /\ state.ingredients[1].id = 101
  /\ state.ingredients[1].kcal = 64
  /\ Len(state.ingredients) = 2
  /\ calcRecipeTotals(state.recipes[1], state.ingredients).kcal = 64 * 80
  /\ \E k \in DOMAIN state.dayLogs :
       /\ k < selectedDayKey
       /\ \E e \in Range(state.dayLogs[k]) : e.type = "ingredient" /\ e.refId = 101
       /\ DayView(state, k).totals.kcal >= 64 * 80

(* C30 *)
\* the steps of the recipe editor that end without a successful save: the
\* editor is opened, its name field is typed in, the picker is opened, a line
\* is added or refused, a line is removed, a submit is refused, the dialog is
\* closed
DraftEvents ==
  {"recipe.open", "recipe.open.threw", "recipe.name", "recipe.picker", "recipe.add.alert",
   "recipe.line.added", "recipe.line.alert", "recipe.line.removed", "recipe.alert",
   "modal.closed"}

\* the saved recipe with this id is replaced, at its position and with its
\* id, by the draft as it was submitted, and every other recipe is unchanged
ReplacedByDraft(id) ==
  /\ Len(state'.recipes) = Len(state.recipes)
  /\ \A i \in 1..Len(state.recipes) :
       IF i = FindIndex(state.recipes, id)
       THEN /\ state'.recipes[i].id = id
            /\ state'.recipes[i].name = Trim(lastEvent'.raw.name)
            /\ state'.recipes[i].items = lastEvent'.raw.items
       ELSE state'.recipes[i] = state.recipes[i]

\* C30: the draft of the recipe editor is isolated from the saved catalog:
\* opening a recipe for editing, adding lines to the draft, removing lines
\* from it and closing the editor without a successful save leave every saved
\* recipe with the name and the lines it had, in memory and persisted; a saved
\* recipe changes only on a successful save, which replaces it at the same
\* position with the same id.
C30_DraftIsIsolated ==
  [][/\ lastEvent'.name \in DraftEvents =>
          state'.recipes = state.recipes /\ persisted' = persisted
     /\ lastEvent'.name = "recipe.updated" => ReplacedByDraft(lastEvent'.id)
     /\ \A i \in 1..Len(state.recipes) :
          \A j \in 1..Len(state'.recipes) :
            (state'.recipes[j].id = state.recipes[i].id
               /\ state'.recipes[j] # state.recipes[i])
              => lastEvent'.name = "recipe.updated" /\ lastEvent'.id = state.recipes[i].id]_vars

\* the saved recipe holds the draft's array of lines only while the editor
\* is closed
C30_SharedArrayIsOutOfReach == recipeDraft.itemsOf # 0 => modal = "none"

\* a saved recipe was opened, its line removed from the draft, and the editor
\* closed without a save: the saved recipe has the line it had
C30_Witness ==
  /\ lastEvent.name = "modal.closed"
  /\ Len(state.recipes) = 1
  /\ editingRecipeId = state.recipes[1].id
  /\ recipeDraft.id = state.recipes[1].id
  /\ Len(recipeDraft.items) = 0
  /\ Len(state.recipes[1].items) = 1
  /\ persisted = Serialize(state)
====
